---- MODULE Spec2Model ----
(***************************************************************************)
(* A model of the Eir graph-editing engine:                                *)
(*   - core/models.py: ControlStructure (the graph store used by the STPA  *)
(*     model) and its IDGenerator (cached "n<k>" / "e<k>" allocation);     *)
(*   - ui/control_structure_tab.py: CommandManager, the nine Command       *)
(*     classes and the GraphScene internals they call.                     *)
(* Python values that may be a str or an int (node IDs, edge keys) are     *)
(* records [t, s, n]: a str is its sequence of characters, an int its      *)
(* value.                                                                  *)
(***************************************************************************)
EXTENDS Integers, Sequences, FiniteSets, TLC

VARIABLES
    cs,         \* ControlStructure: [nodes: set of IDs, edges: set of <<u, v, key>>]
    gen,        \* its IDGenerator: counters, caches, dirty flags
    ret,        \* the last ControlStructure call: [op, id, raised]
    pend,       \* the node ID issued last, until a node with that ID is added
    scene,      \* GraphScene: graph store, items, item data, flags
    cm,         \* its CommandManager: [max_history, history, current_index]
    last,       \* the last call on the CommandManager: [op, did, raised]
    snap,       \* the graph store around the last execute_command
    run,        \* commands executed since construction, undo() calls after them
    applied,    \* the commands executed and not undone
    issued,     \* the number of commands created
    made,       \* per AddEdge command of the history: the edge-creation mode at its
                \* first execute, and the key and flags of the edge it created then
    trail       \* the commands executed since construction, the undo() calls
                \* after them and the redo() calls after those, with the editor
                \* before the first command and after the last one

idVars == <<cs, gen, ret, pend>>

edVars == <<scene, cm, last, snap, run, applied, issued, made, trail>>

vars == <<cs, gen, ret, pend, scene, cm, last, snap, run, applied, issued, made,
          trail>>

(***************************************************************************)
(* Bounds of the model.                                                    *)
(***************************************************************************)
\* the largest number an issued ID may carry
MaxCounter == 6

\* the number of commands the user issues
MaxCmds == 3

(***************************************************************************)
(* Python str / int values.                                                *)
(***************************************************************************)
PyStr(chars) == [t |-> "str", s |-> chars, n |-> 0]

PyInt(k) == [t |-> "int", s |-> <<>>, n |-> k]

DigitChars == <<"0", "1", "2", "3", "4", "5", "6", "7", "8", "9">>

DigitOf(c) == (CHOOSE i \in 1..10 : DigitChars[i] = c) - 1

IsDigitChar(c) == \E i \in 1..10 : DigitChars[i] = c

\* str(k) for a non-negative int k
RECURSIVE Digits(_)
Digits(k) == IF k < 10 THEN <<DigitChars[k + 1]>>
             ELSE Digits(k \div 10) \o <<DigitChars[(k % 10) + 1]>>

\* s.isdigit(): non-empty and every character a digit
IsDigit(s) == Len(s) > 0 /\ \A i \in 1..Len(s) : IsDigitChar(s[i])

\* int(s) for a digit string s
RECURSIVE ParseInt(_)
ParseInt(s) == IF Len(s) = 0 THEN 0
               ELSE 10 * ParseInt(SubSeq(s, 1, Len(s) - 1)) + DigitOf(s[Len(s)])

\* f"{prefix}{k}"
FormatId(prefix, k) == <<prefix>> \o Digits(k)

\* isinstance(v, str) and v.startswith(prefix) and v[1:].isdigit()
MatchesPattern(v, prefix) ==
    /\ v.t = "str"
    /\ Len(v.s) >= 1
    /\ v.s[1] = prefix
    /\ IsDigit(Tail(v.s))

\* int(v[1:]) of a value that matches the pattern
PatternNum(v) == ParseInt(Tail(v.s))

\* str(v)
PyToStr(v) == IF v.t = "str" THEN v.s ELSE Digits(v.n)

SetMax(S) == IF S = {} THEN 0 ELSE CHOOSE x \in S : \A y \in S : y <= x

(***************************************************************************)
(* IDGenerator (core/models.py).                                           *)
(***************************************************************************)
NoCache == [none |-> TRUE, ids |-> {}]

SomeCache(ids) == [none |-> FALSE, ids |-> ids]

IDGeneratorInit(enable) ==
    [enable_cache |-> enable,
     node_counter |-> 1, link_counter |-> 1,
     cached_node_ids |-> NoCache, cached_link_ids |-> NoCache,
     dirty_node_cache |-> TRUE, dirty_link_cache |-> TRUE]

\* invalidate_cache that leaves the caches as they are
invalidate_cache_Keeps(g) == g

invalidate_cache(g) ==
    [g EXCEPT !.dirty_node_cache = TRUE, !.dirty_link_cache = TRUE]

\* numbers of the node IDs that match n<digits>
NodeNums(store) == {PatternNum(v) : v \in {w \in store.nodes : MatchesPattern(w, "n")}}

\* numbers of the edge keys: e<digits> strings and ints
LinkNums(store) ==
    {PatternNum(e[3]) : e \in {f \in store.edges : MatchesPattern(f[3], "e")}}
    \cup {e[3].n : e \in {f \in store.edges : f[3].t = "int"}}

\* the set returned, and the counter it sets
scan_existing_node_ids(g, store) ==
    [ids |-> store.nodes, counter |-> SetMax(NodeNums(store)) + 1]

scan_existing_link_ids(g, store) ==
    [ids |-> {PyToStr(e[3]) : e \in store.edges},
     counter |-> SetMax(LinkNums(store)) + 1]

\* while f"{prefix}{counter}" in cache: counter += 1
RECURSIVE SkipCachedNode(_, _)
SkipCachedNode(counter, ids) ==
    IF PyStr(FormatId("n", counter)) \in ids
    THEN SkipCachedNode(counter + 1, ids) ELSE counter

RECURSIVE SkipCachedLink(_, _)
SkipCachedLink(counter, ids) ==
    IF FormatId("e", counter) \in ids
    THEN SkipCachedLink(counter + 1, ids) ELSE counter

\* get_next_node_id: [g |-> the generator after the call, id |-> the ID returned]
get_next_node_id(g, store) ==
    IF ~g.enable_cache
    THEN [g |-> g, id |-> FormatId("n", SetMax(NodeNums(store)) + 1)]
    ELSE LET rescan  == g.dirty_node_cache \/ g.cached_node_ids.none
             sc      == scan_existing_node_ids(g, store)
             ids0    == IF rescan THEN sc.ids ELSE g.cached_node_ids.ids
             c0      == IF rescan THEN sc.counter ELSE g.node_counter
             c1      == SkipCachedNode(c0, ids0)
             node_id == FormatId("n", c1)
         IN [g |-> [g EXCEPT !.cached_node_ids = SomeCache(ids0 \cup {PyStr(node_id)}),
                             !.dirty_node_cache = FALSE,
                             !.node_counter = c1 + 1],
             id |-> node_id]

get_next_link_id(g, store) ==
    IF ~g.enable_cache
    THEN [g |-> g, id |-> FormatId("e", SetMax(LinkNums(store)) + 1)]
    ELSE LET rescan  == g.dirty_link_cache \/ g.cached_link_ids.none
             sc      == scan_existing_link_ids(g, store)
             ids0    == IF rescan THEN sc.ids ELSE g.cached_link_ids.ids
             c0      == IF rescan THEN sc.counter ELSE g.link_counter
             c1      == SkipCachedLink(c0, ids0)
             link_id == FormatId("e", c1)
         IN [g |-> [g EXCEPT !.cached_link_ids = SomeCache(ids0 \cup {link_id}),
                             !.dirty_link_cache = FALSE,
                             !.link_counter = c1 + 1],
             id |-> link_id]

\* register_node_id that adds to the cache and forgets the counter
register_node_id_NoCounter(g, node_id) ==
    IF g.enable_cache /\ ~g.cached_node_ids.none
    THEN [g EXCEPT !.cached_node_ids = SomeCache(@.ids \cup {node_id})]
    ELSE g

register_node_id(g, node_id) ==
    IF g.enable_cache /\ ~g.cached_node_ids.none
    THEN [g EXCEPT !.cached_node_ids = SomeCache(@.ids \cup {node_id}),
                   !.node_counter =
                       IF MatchesPattern(node_id, "n") /\ PatternNum(node_id) >= @
                       THEN PatternNum(node_id) + 1 ELSE @]
    ELSE g

register_link_id(g, link_id) ==
    IF g.enable_cache /\ ~g.cached_link_ids.none
    THEN [g EXCEPT !.cached_link_ids = SomeCache(@.ids \cup {PyToStr(link_id)}),
                   !.link_counter =
                       IF MatchesPattern(link_id, "e")
                       THEN (IF PatternNum(link_id) >= @ THEN PatternNum(link_id) + 1 ELSE @)
                       ELSE IF link_id.t = "int" /\ link_id.n >= @
                            THEN link_id.n + 1 ELSE @]
    ELSE g

(***************************************************************************)
(* ControlStructure (core/models.py), a networkx MultiDiGraph.             *)
(***************************************************************************)
\* MultiDiGraph.add_edge: missing endpoints are created, the key identifies
\* the edge within the ordered pair
NxAddEdge(store, u, v, key) ==
    [nodes |-> store.nodes \cup {u, v}, edges |-> store.edges \cup {<<u, v, key>>}]

\* MultiDiGraph.remove_node: the node and every edge touching it
NxRemoveNode(store, n) ==
    [nodes |-> store.nodes \ {n},
     edges |-> {e \in store.edges : e[1] # n /\ e[2] # n}]

remove_node_with_links(store, n) ==
    IF n \in store.nodes THEN NxRemoveNode(store, n) ELSE store

(***************************************************************************)
(* Calls on a ControlStructure.  The inputs are drawn from small pools     *)
(* that hold the IDs the generator issues first.                           *)
(***************************************************************************)
NodeIdPool ==
    {PyStr(<<"n", "1">>), PyStr(<<"n", "2">>), PyStr(<<"n", "3">>), PyStr(<<"c", "1">>)}

EndPairs == {<<PyStr(<<"n", "1">>), PyStr(<<"n", "3">>)>>}

KeyPool == {PyStr(<<"e", "1">>), PyStr(<<"e", "2">>), PyInt(3)}

NoId == <<>>

\* ret.op is "node" / "link" after get_next_node_id / get_next_link_id, which
\* return ret.id, and "other" after any other call
Returned(op, id) == [op |-> op, id |-> id, raised |-> FALSE]

CsAddNode(node_id) ==
    /\ cs' = [cs EXCEPT !.nodes = @ \cup {node_id}]
    /\ gen' = register_node_id(gen, node_id)
    /\ ret' = Returned("other", NoId)

CsAddLink(link_id, source_id, target_id) ==
    /\ cs' = NxAddEdge(cs, source_id, target_id, link_id)
    /\ gen' = register_link_id(gen, link_id)
    /\ ret' = Returned("other", NoId)

CsAddEdge(u, v, key) ==
    /\ cs' = NxAddEdge(cs, u, v, key)
    /\ gen' = gen
    /\ ret' = Returned("other", NoId)

CsRemoveNodeWithLinks(node_id) ==
    /\ cs' = remove_node_with_links(cs, node_id)
    /\ gen' = IF node_id \in cs.nodes THEN invalidate_cache(gen) ELSE gen
    /\ ret' = Returned("other", NoId)

\* MultiDiGraph.remove_edge raises NetworkXError for an edge that is not there,
\* before the cache is invalidated
CsRemoveEdge(u, v, key) ==
    IF <<u, v, key>> \in cs.edges
    THEN /\ cs' = [cs EXCEPT !.edges = @ \ {<<u, v, key>>}]
         /\ gen' = invalidate_cache(gen)
         /\ ret' = Returned("other", NoId)
    ELSE /\ UNCHANGED <<cs, gen>>
         /\ ret' = [Returned("other", NoId) EXCEPT !.raised = TRUE]

CsClear ==
    /\ cs' = [nodes |-> {}, edges |-> {}]
    /\ gen' = invalidate_cache(gen)
    /\ ret' = Returned("other", NoId)

CsGetNextNodeId ==
    LET r == get_next_node_id(gen, cs) IN
    /\ r.g.node_counter <= MaxCounter + 1
    /\ gen' = r.g
    /\ cs' = cs
    /\ ret' = Returned("node", r.id)

CsGetNextLinkId ==
    LET r == get_next_link_id(gen, cs) IN
    /\ r.g.link_counter <= MaxCounter + 1
    /\ gen' = r.g
    /\ cs' = cs
    /\ ret' = Returned("link", r.id)

IdStart ==
    /\ cs = [nodes |-> {}, edges |-> {}]
    /\ gen = IDGeneratorInit(TRUE)
    /\ ret = Returned("other", NoId)
    /\ pend = NoId

(***************************************************************************)
(* The graph editor (ui/control_structure_tab.py).                         *)
(*                                                                         *)
(* Python objects that are shared by reference (NodeItem, EdgeItem,        *)
(* NodeData, EdgeData) live in maps from a reference (a positive number)   *)
(* to the object's fields; an object that nothing refers to any more is    *)
(* dropped.  None is 0 for a reference and -1 for a node ID or an edge     *)
(* key.  A dict is a function from its keys to their values.  Node IDs and *)
(* edge keys of the editor are ints; QPointF and floats carry whole        *)
(* numbers.                                                                *)
(***************************************************************************)
PyFloat(k) == [t |-> "float", s |-> <<>>, n |-> k]

\* str(v) for a str or a float
str(v) == IF v.t = "str" THEN v ELSE PyStr(Digits(v.n) \o <<".", "0">>)

\* float(v) succeeds for a float and for a str of digits (the texts used
\* here are digit strings or words); otherwise it raises ValueError
CanFloat(v) == v.t = "float" \/ (v.t = "str" /\ IsDigit(v.s))

float(v) == IF v.t = "float" THEN v ELSE PyFloat(ParseInt(v.s))

PyBool(b) == [t |-> "bool", s |-> <<>>, n |-> IF b THEN 1 ELSE 0]

\* bool(v): an empty str, None and 0 are false
bool(v) == IF v.t = "str" THEN v.s # <<>> ELSE v.n # 0

None == 0

NoneId == -1

MAX_UNDO_HISTORY == 50

DEFAULT_NODE_SIZE == 24

EmptyDict == [k \in {} |-> 0]

\* dict.update
DictUpdate(d, e) ==
    [k \in (DOMAIN d) \cup (DOMAIN e) |-> IF k \in DOMAIN e THEN e[k] ELSE d[k]]

\* dict.get(key, default)
DictGet(d, key, default) == IF key \in DOMAIN d THEN d[key] ELSE default

\* a map without the keys in S
Without(f, S) == [k \in (DOMAIN f) \ S |-> f[k]]

\* a map with one more entry
With(f, k, v) == [x \in (DOMAIN f) \cup {k} |-> IF x = k THEN v ELSE f[x]]

\* a reference that no object of the map has
NewRef(f) == CHOOSE i \in 1..(Cardinality(DOMAIN f) + 1) :
                 i \notin DOMAIN f /\ \A j \in 1..(i - 1) : j \in DOMAIN f

Range(s) == {s[i] : i \in 1..Len(s)}

Reversed(s) == [i \in 1..Len(s) |-> s[Len(s) + 1 - i]]

(***************************************************************************)
(* networkx.MultiDiGraph with attributes: nodes maps a node ID to its      *)
(* attribute dict, edges maps <<u, v, key>> to its attribute dict.         *)
(***************************************************************************)
EmptyGraph == [nodes |-> EmptyDict, edges |-> EmptyDict]

\* G.add_node(n, **attr): a new node gets attr, an existing one is updated
nx_add_node(G, n, attr) ==
    [G EXCEPT !.nodes = With(@, n, DictUpdate(DictGet(@, n, EmptyDict), attr))]

\* G.add_edge(u, v, key=key, **attr): missing endpoints are created without
\* attributes; an existing edge with that key is updated
nx_add_edge(G, u, v, key, attr) ==
    LET n1 == IF u \in DOMAIN G.nodes THEN G.nodes ELSE With(G.nodes, u, EmptyDict)
        n2 == IF v \in DOMAIN n1 THEN n1 ELSE With(n1, v, EmptyDict)
    IN [nodes |-> n2,
        edges |-> With(G.edges, <<u, v, key>>,
                       DictUpdate(DictGet(G.edges, <<u, v, key>>, EmptyDict), attr))]

nx_remove_node_OutEdgesOnly(G, n) ==
    [nodes |-> Without(G.nodes, {n}),
     edges |-> Without(G.edges, {e \in DOMAIN G.edges : e[1] = n})]

\* G.remove_node(n): the node and every edge touching it
nx_remove_node(G, n) ==
    [nodes |-> Without(G.nodes, {n}),
     edges |-> Without(G.edges, {e \in DOMAIN G.edges : e[1] = n \/ e[2] = n})]

\* G.remove_edge(u, v, key=key)
nx_remove_edge(G, u, v, key) == [G EXCEPT !.edges = Without(@, {<<u, v, key>>})]

\* G.has_edge(u, v, key=key)
nx_has_edge(G, u, v, key) == <<u, v, key>> \in DOMAIN G.edges

\* list(G[u][v].keys()) when G.has_edge(u, v), the empty list otherwise
nx_edge_keys(G, u, v) == {e[3] : e \in {d \in DOMAIN G.edges : d[1] = u /\ d[2] = v}}

(***************************************************************************)
(* GraphScene.  S is the scene with everything reachable from it:          *)
(*   G                the graph store                                      *)
(*   nodes, edges     NodeItem / EdgeItem objects by reference             *)
(*   ndata, edata     NodeData / EdgeData objects by reference             *)
(*   nscene, escene   the items in the scene, in the order they were added *)
(*   applying_command, edge_mode   the scene's flags                       *)
(*   adding_node, connecting, deleting   the interaction mode flags        *)
(*   c_key_held, connect_start_node      the connect gesture in progress   *)
(* A NodeItem carries movable, its ItemIsMovable flag.                     *)
(***************************************************************************)
NodeData(name) ==
    [name |-> name, states |-> <<>>, shape |-> PyStr(<<"c", "i", "r", "c", "l", "e">>),
     size |-> PyFloat(DEFAULT_NODE_SIZE)]

EdgeData(name, weight, undirected, bidirectional) ==
    [name |-> name, weight |-> weight, undirected |-> undirected,
     bidirectional |-> bidirectional]

NodeItem(node_id, data, pos) ==
    [node_id |-> node_id, data |-> data, pos |-> pos, movable |-> TRUE]

EdgeItem(src, dst, data, edge_key) ==
    [src |-> src, dst |-> dst, data |-> data, edge_key |-> edge_key, curve_offset |-> 0]

GraphSceneInit(graph) ==
    [G |-> graph, nodes |-> <<>>, edges |-> <<>>, ndata |-> <<>>, edata |-> <<>>,
     nscene |-> <<>>, escene |-> <<>>, applying_command |-> FALSE,
     edge_mode |-> "directed",
     adding_node |-> FALSE, connecting |-> FALSE, deleting |-> FALSE,
     c_key_held |-> FALSE, connect_start_node |-> None]

\* item.scene() is None for an item that is not in the scene
InScene(S, node_item) == node_item \in Range(S.nscene)

\* QGraphicsScene.items() lists the items added last first
iter_nodes(S) == Reversed(S.nscene)

iter_edges(S) == Reversed(S.escene)

\* _set_nodes_movable: the flag of every node item in the scene
set_nodes_movable(S, enabled) ==
    [S EXCEPT !.nodes = [n \in DOMAIN @ |->
                            IF InScene(S, n) THEN [@[n] EXCEPT !.movable = enabled]
                            ELSE @[n]]]

set_adding_node_KeepsOthers(S, enabled) ==
    set_nodes_movable([S EXCEPT !.adding_node = enabled], ~enabled)

set_adding_node(S, enabled) ==
    IF enabled
    THEN set_nodes_movable([S EXCEPT !.adding_node = TRUE, !.connecting = FALSE,
                                     !.deleting = FALSE], FALSE)
    ELSE set_nodes_movable([S EXCEPT !.adding_node = FALSE], TRUE)

set_connecting(S, enabled) ==
    IF enabled
    THEN set_nodes_movable([S EXCEPT !.connecting = TRUE, !.adding_node = FALSE,
                                     !.deleting = FALSE], FALSE)
    ELSE set_nodes_movable([S EXCEPT !.connecting = FALSE], TRUE)

set_deleting(S, enabled) ==
    IF enabled
    THEN set_nodes_movable([S EXCEPT !.deleting = TRUE, !.adding_node = FALSE,
                                     !.connecting = FALSE], FALSE)
    ELSE set_nodes_movable([S EXCEPT !.deleting = FALSE], TRUE)

set_edge_mode(S, mode) == [S EXCEPT !.edge_mode = mode]

set_interaction_mode_NoReset(S, mode) ==
    CASE mode = "add_node" -> set_adding_node(S, TRUE)
      [] mode = "connect" -> set_connecting(S, TRUE)
      [] mode = "delete" -> set_deleting(S, TRUE)
      [] OTHER -> S

\* ControlStructureTab._set_interaction_mode: every mode is reset, then the
\* requested one is set; 'move' sets none
set_interaction_mode(S, mode) ==
    LET reset == set_deleting(set_connecting(set_adding_node(S, FALSE), FALSE), FALSE)
    IN CASE mode = "add_node" -> set_adding_node(reset, TRUE)
         [] mode = "connect" -> set_connecting(reset, TRUE)
         [] mode = "delete" -> set_deleting(reset, TRUE)
         [] OTHER -> reset

\* the scene of a new tab: _setup_ui ends with _set_interaction_mode('add_node')
TabScene == set_interaction_mode(GraphSceneInit(EmptyGraph), "add_node")

find_node_by_id(S, node_id) ==
    LET found == SelectSeq(iter_nodes(S), LAMBDA n : S.nodes[n].node_id = node_id)
    IN IF found = <<>> THEN None ELSE Head(found)

\* sorted(items, key=lambda e: e.edge_key): stable
RECURSIVE SortedByKey(_, _)
SortedByKey(S, items) ==
    IF items = <<>> THEN <<>>
    ELSE LET low == CHOOSE i \in 1..Len(items) :
                        /\ \A j \in 1..Len(items) :
                               S.edges[items[i]].edge_key <= S.edges[items[j]].edge_key
                        /\ \A j \in 1..(i - 1) :
                               S.edges[items[j]].edge_key # S.edges[items[i]].edge_key
         IN <<items[low]>> \o
            SortedByKey(S, SubSeq(items, 1, low - 1) \o SubSeq(items, low + 1, Len(items)))

base_spacing == 50

ReflowOffsets_OddSpacing(S, all_edges) ==
    LET total_edges == Len(all_edges)
        offset(i) == (i - (total_edges \div 2)) * base_spacing
        last_place(e) == CHOOSE i \in 1..total_edges :
                             all_edges[i] = e /\ \A j \in (i + 1)..total_edges : all_edges[j] # e
    IN [S EXCEPT !.edges = [e \in DOMAIN @ |->
                               IF e \in Range(all_edges)
                               THEN [@[e] EXCEPT !.curve_offset = offset(last_place(e) - 1)]
                               ELSE @[e]]]

ReflowOffsets_Accumulating(S, all_edges) ==
    LET total_edges == Len(all_edges)
        offset(i) == ((2 * i - (total_edges - 1)) * base_spacing) \div 2
        last_place(e) == CHOOSE i \in 1..total_edges :
                             all_edges[i] = e /\ \A j \in (i + 1)..total_edges : all_edges[j] # e
    IN [S EXCEPT !.edges = [e \in DOMAIN @ |->
                               IF e \in Range(all_edges)
                               THEN [@[e] EXCEPT !.curve_offset =
                                         IF 2 * @ >= 0 - base_spacing /\ 2 * @ <= base_spacing
                                         THEN @ + offset(last_place(e) - 1)
                                         ELSE offset(last_place(e) - 1)]
                               ELSE @[e]]]

\* the offsets that _reflow_all_edges_between_nodes gives to the items of
\* all_edges: spaced symmetrically around 0; an item listed twice (u = v)
\* keeps the offset assigned last
ReflowOffsets(S, all_edges) ==
    LET total_edges == Len(all_edges)
        offset(i) == IF total_edges = 1 THEN 0
                     ELSE IF total_edges % 2 = 1
                          THEN (i - (total_edges \div 2)) * base_spacing
                          ELSE ((2 * i - (total_edges - 1)) * base_spacing) \div 2
        last_place(e) == CHOOSE i \in 1..total_edges :
                             all_edges[i] = e /\ \A j \in (i + 1)..total_edges : all_edges[j] # e
    IN [S EXCEPT !.edges = [e \in DOMAIN @ |->
                               IF e \in Range(all_edges)
                               THEN [@[e] EXCEPT !.curve_offset = offset(last_place(e) - 1)]
                               ELSE @[e]]]

\* _reflow_all_edges_between_nodes: the edge items between u and v, sorted
\* by key, u->v first
reflow_all_edges_between_nodes(S, u, v) ==
    LET items_uv == SelectSeq(iter_edges(S), LAMBDA e :
                        S.nodes[S.edges[e].src].node_id = u /\ S.nodes[S.edges[e].dst].node_id = v)
        items_vu == SelectSeq(iter_edges(S), LAMBDA e :
                        S.nodes[S.edges[e].src].node_id = v /\ S.nodes[S.edges[e].dst].node_id = u)
    IN ReflowOffsets(S, SortedByKey(S, items_uv) \o SortedByKey(S, items_vu))

\* _create_node_internal; every node ID of the editor is an int, so the
\* max() over the int IDs is defined whenever the graph has a node
create_node_internal(S, pos, data, node_id) ==
    LET id == IF node_id # NoneId THEN node_id
              ELSE IF DOMAIN S.G.nodes = {} THEN 0
                   ELSE SetMax(DOMAIN S.G.nodes) + 1
        item == NewRef(S.nodes)
        d == S.ndata[data]
    IN [scene |-> [S EXCEPT
                     !.G = nx_add_node(@, id, [name |-> d.name, states |-> d.states,
                                               shape |-> d.shape, size |-> d.size,
                                               position |-> pos]),
                     !.nodes = With(@, item, NodeItem(id, data, pos)),
                     !.nscene = Append(@, item)],
        item |-> item, node_id |-> id]

\* _delete_node_item_internal; removeItem of an item that is not in the
\* scene does nothing
delete_node_item_internal(S, node_item) ==
    LET node_id == S.nodes[node_item].node_id
        edges_to_remove == {e \in Range(S.escene) :
                               S.edges[e].src = node_item \/ S.edges[e].dst = node_item}
    IN [S EXCEPT
          !.escene = SelectSeq(@, LAMBDA e : e \notin edges_to_remove),
          !.G = IF node_id \in DOMAIN @.nodes THEN nx_remove_node(@, node_id) ELSE @,
          !.nscene = SelectSeq(@, LAMBDA n : n # node_item)]

\* _create_edge_internal
create_edge_internal(S, src, dst, data, edge_key) ==
    LET u == S.nodes[src].node_id
        v == S.nodes[dst].node_id
        existing == nx_edge_keys(S.G, u, v)
        key == IF edge_key # NoneId THEN edge_key
               ELSE IF existing # {} THEN SetMax(existing) + 1 ELSE 0
        item == NewRef(S.edges)
        d == S.edata[data]
        S1 == [S EXCEPT
                 !.G = nx_add_edge(@, u, v, key,
                                   [name |-> d.name, weight |-> d.weight,
                                    undirected |-> d.undirected,
                                    bidirectional |-> d.bidirectional]),
                 !.edges = With(@, item, EdgeItem(src, dst, data, key)),
                 !.escene = Append(@, item)]
    IN [scene |-> reflow_all_edges_between_nodes(S1, u, v), item |-> item]

\* _delete_edge_item_internal
delete_edge_item_internal(S, edge_item) ==
    LET src_id == S.nodes[S.edges[edge_item].src].node_id
        dst_id == S.nodes[S.edges[edge_item].dst].node_id
        edge_key == S.edges[edge_item].edge_key
        S1 == [S EXCEPT
                 !.G = IF nx_has_edge(@, src_id, dst_id, edge_key)
                       THEN nx_remove_edge(@, src_id, dst_id, edge_key) ELSE @,
                 !.escene = SelectSeq(@, LAMBDA e : e # edge_item)]
    IN reflow_all_edges_between_nodes(S1, src_id, dst_id)

(***************************************************************************)
(* The Command classes.  A command is a record with the fields of all      *)
(* nine classes; cid is the identity of the command object.  execute and   *)
(* undo give [scene, c, ok]: the scene and the command as the call leaves  *)
(* them, and ok = FALSE when the call raised.                              *)
(***************************************************************************)
Command(kind) ==
    [cid |-> 0, kind |-> kind,
     node_item |-> None, node_id |-> NoneId, node_data |-> None,
     position |-> <<0, 0>>, connected_edges |-> <<>>,
     edge_item |-> None, src_node |-> None, dst_node |-> None,
     src_id |-> NoneId, dst_id |-> NoneId, edge_data |-> None, edge_key |-> NoneId,
     old_name |-> PyStr(<<>>), new_name |-> PyStr(<<>>),
     property_name |-> "", old_value |-> PyStr(<<>>), new_value |-> PyStr(<<>>),
     old_pos |-> <<0, 0>>, new_pos |-> <<0, 0>>]

Returns(S, c) == [scene |-> S, c |-> c, ok |-> TRUE]

Raises(S, c) == [scene |-> S, c |-> c, ok |-> FALSE]

AddNodeCommand(position, node_data) ==
    [Command("AddNode") EXCEPT !.position = position, !.node_data = node_data]

\* r is what _create_node_internal has returned
AddNodeCreated(c, r) ==
    Returns(r.scene, [c EXCEPT !.node_item = r.item, !.node_id = r.node_id])

AddNodeExecute(c, S) ==
    AddNodeCreated(c, create_node_internal(S, c.position, c.node_data, NoneId))

AddNodeUndo(c, S) ==
    IF c.node_item # None
    THEN Returns(delete_node_item_internal(S, c.node_item), c)
    ELSE Returns(S, c)

DeleteNodeCommand(S, node_item) ==
    [Command("DeleteNode") EXCEPT
        !.node_item = node_item,
        !.node_id = S.nodes[node_item].node_id,
        !.node_data = S.nodes[node_item].data,
        !.position = S.nodes[node_item].pos]

DeleteNodeExecute(c, S) ==
    LET touching == SelectSeq(iter_edges(S), LAMBDA e :
                        S.edges[e].src = c.node_item \/ S.edges[e].dst = c.node_item)
        edge_info(e) == [src_id |-> S.nodes[S.edges[e].src].node_id,
                         dst_id |-> S.nodes[S.edges[e].dst].node_id,
                         data |-> S.edges[e].data,
                         key |-> S.edges[e].edge_key]
    IN Returns(delete_node_item_internal(S, c.node_item),
               [c EXCEPT !.connected_edges =
                             [i \in 1..Len(touching) |-> edge_info(touching[i])]])

\* the body of the loop of DeleteNodeCommand.undo
RecreateEdge(S, edge_info, src_node, dst_node) ==
    IF src_node # None /\ dst_node # None
    THEN create_edge_internal(S, src_node, dst_node, edge_info.data, edge_info.key).scene
    ELSE S

\* the loop of DeleteNodeCommand.undo over connected_edges
RECURSIVE RecreateEdges(_, _)
RecreateEdges(S, infos) ==
    IF infos = <<>> THEN S
    ELSE RecreateEdges(RecreateEdge(S, Head(infos),
                                    find_node_by_id(S, Head(infos).src_id),
                                    find_node_by_id(S, Head(infos).dst_id)),
                       Tail(infos))

\* r is what _create_node_internal has returned
DeleteNodeRecreated(c, r) ==
    Returns(RecreateEdges(r.scene, c.connected_edges), [c EXCEPT !.node_item = r.item])

DeleteNodeUndo(c, S) ==
    DeleteNodeRecreated(c, create_node_internal(S, c.position, c.node_data, c.node_id))

RenameNodeCommand(node_item, old_name, new_name) ==
    [Command("RenameNode") EXCEPT
        !.node_item = node_item, !.old_name = old_name, !.new_name = new_name]

RenameNodeExecute(c, S) ==
    Returns([S EXCEPT !.ndata[S.nodes[c.node_item].data].name = c.new_name], c)

RenameNodeUndo(c, S) ==
    Returns([S EXCEPT !.ndata[S.nodes[c.node_item].data].name = c.old_name], c)

RenameEdgeCommand(edge_item, old_name, new_name) ==
    [Command("RenameEdge") EXCEPT
        !.edge_item = edge_item, !.old_name = old_name, !.new_name = new_name]

RenameEdgeExecute(c, S) ==
    Returns([S EXCEPT !.edata[S.edges[c.edge_item].data].name = c.new_name], c)

RenameEdgeUndo(c, S) ==
    Returns([S EXCEPT !.edata[S.edges[c.edge_item].data].name = c.old_name], c)

AddEdgeCommand(S, src_node, dst_node) ==
    [Command("AddEdge") EXCEPT
        !.src_node = src_node, !.dst_node = dst_node,
        !.src_id = S.nodes[src_node].node_id, !.dst_id = S.nodes[dst_node].node_id]

\* r is what _create_edge_internal has returned
AddEdgeCreated(c, r) == Returns(r.scene, [c EXCEPT !.edge_item = r.item])

AddEdgeExecute(c, S) ==
    LET first == c.edge_data = None
        existing == nx_edge_keys(S.G, c.src_id, c.dst_id)
        next_key == IF existing # {} THEN SetMax(existing) + 1 ELSE 0
        name == PyStr(<<"e">> \o Digits(c.src_id) \o <<"_">> \o Digits(c.dst_id)
                      \o <<"_">> \o Digits(next_key))
        data == NewRef(S.edata)
        S1 == IF first
              THEN [S EXCEPT !.edata =
                       With(@, data, EdgeData(name, PyFloat(1),
                                              S.edge_mode = "undirected",
                                              S.edge_mode = "bidirectional"))]
              ELSE S
        c1 == IF first THEN [c EXCEPT !.edge_key = next_key, !.edge_data = data] ELSE c
    IN AddEdgeCreated(c1, create_edge_internal(S1, c.src_node, c.dst_node,
                                               c1.edge_data, c1.edge_key))

AddEdgeUndo(c, S) ==
    IF c.edge_item # None
    THEN Returns(delete_edge_item_internal(S, c.edge_item), c)
    ELSE Returns(S, c)

DeleteEdgeCommand(S, edge_item) ==
    [Command("DeleteEdge") EXCEPT
        !.edge_item = edge_item,
        !.src_id = S.nodes[S.edges[edge_item].src].node_id,
        !.dst_id = S.nodes[S.edges[edge_item].dst].node_id,
        !.edge_data = S.edges[edge_item].data,
        !.edge_key = S.edges[edge_item].edge_key]

DeleteEdgeExecute(c, S) ==
    Returns(delete_edge_item_internal(S, c.edge_item),
            [c EXCEPT !.src_node = S.edges[c.edge_item].src,
                      !.dst_node = S.edges[c.edge_item].dst])

DeleteEdgeFound(c, S, src_node, dst_node) ==
    IF src_node # None /\ dst_node # None
    THEN AddEdgeCreated(c, create_edge_internal(S, src_node, dst_node,
                                                c.edge_data, c.edge_key))
    ELSE Returns(S, c)

DeleteEdgeUndo(c, S) ==
    DeleteEdgeFound(c, S, find_node_by_id(S, c.src_id), find_node_by_id(S, c.dst_id))

ChangeNodePropertyCommand(S, node_item, property_name, old_value, new_value) ==
    [Command("ChangeNodeProperty") EXCEPT
        !.node_item = node_item, !.node_id = S.nodes[node_item].node_id,
        !.property_name = property_name,
        !.old_value = old_value, !.new_value = new_value]

\* ChangeNodePropertyCommand._apply_property: the NodeData field is set
\* first; G.nodes[node_id] raises KeyError for a node that is not in the
\* graph; only ValueError and TypeError of the size branch are caught
ChangeNodeApplyProperty(c, S, value) ==
    LET data == S.nodes[c.node_item].data
        inG == c.node_id \in DOMAIN S.G.nodes
        SetAttr(S0, key, v) == [S0 EXCEPT !.G.nodes[c.node_id] = With(@, key, v)]
    IN CASE c.property_name = "name" ->
              LET S1 == [S EXCEPT !.ndata[data].name = str(value)]
              IN IF inG THEN Returns(SetAttr(S1, "name", str(value)), c) ELSE Raises(S1, c)
         [] c.property_name = "shape" ->
              LET S1 == [S EXCEPT !.ndata[data].shape = str(value)]
              IN IF inG THEN Returns(SetAttr(S1, "shape", str(value)), c) ELSE Raises(S1, c)
         [] c.property_name = "size" ->
              IF ~CanFloat(value) THEN Returns(S, c)
              ELSE LET S1 == [S EXCEPT !.ndata[data].size = float(value)]
                   IN IF inG THEN Returns(SetAttr(S1, "size", float(value)), c)
                      ELSE Raises(S1, c)
         [] c.property_name = "node_type" ->
              IF inG THEN Returns(SetAttr(S, "node_type", value), c) ELSE Raises(S, c)
         [] c.property_name = "description" ->
              IF inG THEN Returns(SetAttr(S, "description", value), c) ELSE Raises(S, c)
         [] OTHER -> Returns(S, c)

ChangeNodePropertyExecute(c, S) == ChangeNodeApplyProperty(c, S, c.new_value)

ChangeNodePropertyUndo(c, S) == ChangeNodeApplyProperty(c, S, c.old_value)

ChangeEdgePropertyCommand(S, edge_item, property_name, old_value, new_value) ==
    [Command("ChangeEdgeProperty") EXCEPT
        !.edge_item = edge_item,
        !.src_id = S.nodes[S.edges[edge_item].src].node_id,
        !.dst_id = S.nodes[S.edges[edge_item].dst].node_id,
        !.edge_key = S.edges[edge_item].edge_key,
        !.property_name = property_name,
        !.old_value = old_value, !.new_value = new_value]

\* ChangeEdgePropertyCommand._apply_property: G[src_id][dst_id][edge_key]
\* raises KeyError for an edge that is not in the graph
ChangeEdgeApplyProperty(c, S, value) ==
    LET data == S.edges[c.edge_item].data
        e == <<c.src_id, c.dst_id, c.edge_key>>
        inG == e \in DOMAIN S.G.edges
        SetAttr(S0, key, v) == [S0 EXCEPT !.G.edges[e] = With(@, key, v)]
    IN CASE c.property_name = "label" ->
              LET S1 == [S EXCEPT !.edata[data].name = str(value)]
              IN IF inG THEN Returns(SetAttr(S1, "name", str(value)), c) ELSE Raises(S1, c)
         [] c.property_name = "link_type" ->
              IF inG THEN Returns(SetAttr(S, "link_type", value), c) ELSE Raises(S, c)
         [] c.property_name = "description" ->
              IF inG THEN Returns(SetAttr(S, "description", value), c) ELSE Raises(S, c)
         [] c.property_name = "weight" ->
              IF ~CanFloat(value) THEN Returns(S, c)
              ELSE LET S1 == [S EXCEPT !.edata[data].weight = float(value)]
                   IN IF inG THEN Returns(SetAttr(S1, "weight", float(value)), c)
                      ELSE Raises(S1, c)
         [] c.property_name = "undirected" ->
              LET S1 == [S EXCEPT !.edata[data].undirected = bool(value)]
              IN IF inG THEN Returns(SetAttr(S1, "undirected", bool(value)), c)
                 ELSE Raises(S1, c)
         [] c.property_name = "bidirectional" ->
              LET S1 == [S EXCEPT !.edata[data].bidirectional = bool(value)]
              IN IF inG THEN Returns(SetAttr(S1, "bidirectional", bool(value)), c)
                 ELSE Raises(S1, c)
         [] OTHER -> Returns(S, c)

ChangeEdgePropertyExecute(c, S) == ChangeEdgeApplyProperty(c, S, c.new_value)

ChangeEdgePropertyUndo(c, S) == ChangeEdgeApplyProperty(c, S, c.old_value)

MoveNodeCommand(node_item, old_pos, new_pos) ==
    [Command("MoveNode") EXCEPT
        !.node_item = node_item, !.old_pos = old_pos, !.new_pos = new_pos]

\* MoveNodeCommand.execute / undo with the position to apply:
\* node_item.scene() is None for an item that is not in the scene, so the
\* first line raises AttributeError; G.nodes[node_id] raises KeyError for a
\* node that is not in the graph, after setPos and with the flag still set
MoveNodeApply(c, S, pos) ==
    IF ~InScene(S, c.node_item) THEN Raises(S, c)
    ELSE LET S1 == [S EXCEPT !.applying_command = TRUE,
                             !.nodes[c.node_item].pos = pos]
             node_id == S.nodes[c.node_item].node_id
         IN IF node_id \in DOMAIN S.G.nodes
            THEN Returns([S1 EXCEPT !.G.nodes[node_id] = With(@, "position", pos),
                                    !.applying_command = FALSE], c)
            ELSE Raises(S1, c)

MoveNodeExecute(c, S) == MoveNodeApply(c, S, c.new_pos)

MoveNodeUndo(c, S) == MoveNodeApply(c, S, c.old_pos)

\* command.execute()
CommandExecute(c, S) ==
    CASE c.kind = "AddNode" -> AddNodeExecute(c, S)
      [] c.kind = "DeleteNode" -> DeleteNodeExecute(c, S)
      [] c.kind = "RenameNode" -> RenameNodeExecute(c, S)
      [] c.kind = "RenameEdge" -> RenameEdgeExecute(c, S)
      [] c.kind = "AddEdge" -> AddEdgeExecute(c, S)
      [] c.kind = "DeleteEdge" -> DeleteEdgeExecute(c, S)
      [] c.kind = "ChangeNodeProperty" -> ChangeNodePropertyExecute(c, S)
      [] c.kind = "ChangeEdgeProperty" -> ChangeEdgePropertyExecute(c, S)
      [] c.kind = "MoveNode" -> MoveNodeExecute(c, S)

\* command.undo()
CommandUndo(c, S) ==
    CASE c.kind = "AddNode" -> AddNodeUndo(c, S)
      [] c.kind = "DeleteNode" -> DeleteNodeUndo(c, S)
      [] c.kind = "RenameNode" -> RenameNodeUndo(c, S)
      [] c.kind = "RenameEdge" -> RenameEdgeUndo(c, S)
      [] c.kind = "AddEdge" -> AddEdgeUndo(c, S)
      [] c.kind = "DeleteEdge" -> DeleteEdgeUndo(c, S)
      [] c.kind = "ChangeNodeProperty" -> ChangeNodePropertyUndo(c, S)
      [] c.kind = "ChangeEdgeProperty" -> ChangeEdgePropertyUndo(c, S)
      [] c.kind = "MoveNode" -> MoveNodeUndo(c, S)

(***************************************************************************)
(* CommandManager.  M is [max_history, history, current_index]; history    *)
(* is a Python list, so the command at index i is history[i + 1] here.     *)
(* The operations give [scene, cm, ok, did]: ok = FALSE when the call      *)
(* raised, did = FALSE when it found nothing to undo or redo.              *)
(***************************************************************************)
CommandManagerInit(max_history) ==
    [max_history |-> max_history, history |-> <<>>, current_index |-> -1]

\* the history and the cursor after the append and the trim
Appended(M, added) ==
    IF Len(added) > M.max_history
    THEN [M EXCEPT !.history = Tail(added), !.current_index = (@ + 1) - 1]
    ELSE [M EXCEPT !.history = added, !.current_index = @ + 1]

\* execute_command after command.execute() has given r, kept being the
\* history up to the cursor
Executed(M, kept, r) ==
    IF ~r.ok THEN [scene |-> r.scene, cm |-> M, ok |-> FALSE, did |-> TRUE]
    ELSE [scene |-> r.scene, cm |-> Appended(M, Append(kept, r.c)),
          ok |-> TRUE, did |-> TRUE]

execute_command_NoTruncate(M, S, command) ==
    Executed(M, M.history, CommandExecute(command, S))

execute_command(M, S, command) ==
    Executed(M,
             IF M.current_index < Len(M.history) - 1
             THEN SubSeq(M.history, 1, M.current_index + 1)
             ELSE M.history,
             CommandExecute(command, S))

can_undo_FromBeforeStart(M) == M.current_index >= -1

can_undo(M) == M.current_index >= 0

can_redo(M) == M.current_index < Len(M.history) - 1

\* the place of history[i] in the list: a negative i counts from the end;
\* 0 when history[i] raises IndexError
ListPlace(history, i) ==
    LET place == IF i >= 0 THEN i + 1 ELSE Len(history) + i + 1
    IN IF place \in 1..Len(history) THEN place ELSE 0

\* undo after command.undo() has given r for the command at place
Undone(M, place, r) ==
    [scene |-> r.scene,
     cm |-> [M EXCEPT !.history[place] = r.c,
                      !.current_index = IF r.ok THEN @ - 1 ELSE @],
     ok |-> r.ok, did |-> TRUE]

\* undo: the cursor moves only after command.undo() has returned
undo(M, S) ==
    IF ~can_undo(M) THEN [scene |-> S, cm |-> M, ok |-> TRUE, did |-> FALSE]
    ELSE IF ListPlace(M.history, M.current_index) = 0
         THEN [scene |-> S, cm |-> M, ok |-> FALSE, did |-> TRUE]
         ELSE Undone(M, ListPlace(M.history, M.current_index),
                     CommandUndo(M.history[ListPlace(M.history, M.current_index)], S))

\* redo after command.execute() has given r for the command at place
Redone(M, place, r) ==
    [scene |-> r.scene,
     cm |-> [M EXCEPT !.history[place] = r.c, !.current_index = @ + 1],
     ok |-> r.ok, did |-> TRUE]

redo_CursorOnly(M, S) ==
    IF ~can_redo(M) THEN [scene |-> S, cm |-> M, ok |-> TRUE, did |-> FALSE]
    ELSE [scene |-> S, cm |-> [M EXCEPT !.current_index = @ + 1],
          ok |-> TRUE, did |-> TRUE]

\* redo: the cursor moves before command.execute() is called
redo(M, S) ==
    IF ~can_redo(M) THEN [scene |-> S, cm |-> M, ok |-> TRUE, did |-> FALSE]
    ELSE IF ListPlace(M.history, M.current_index + 1) = 0
         THEN [scene |-> S, cm |-> [M EXCEPT !.current_index = @ + 1],
               ok |-> FALSE, did |-> TRUE]
         ELSE Redone(M, ListPlace(M.history, M.current_index + 1),
                     CommandExecute(M.history[ListPlace(M.history, M.current_index + 1)], S))

(***************************************************************************)
(* Objects that neither the scene nor a command of the history refers to   *)
(* are gone (Python reference counting).  A reference is an identity and   *)
(* nothing else, so the objects that remain are numbered in the order in   *)
(* which the scene and then the history reach them.                        *)
(***************************************************************************)
RECURSIVE Distinct(_, _)
Distinct(refs, seen) ==
    IF refs = <<>> THEN <<>>
    ELSE IF Head(refs) \in seen THEN Distinct(Tail(refs), seen)
    ELSE <<Head(refs)>> \o Distinct(Tail(refs), seen \cup {Head(refs)})

RECURSIVE Flatten(_)
Flatten(seqs) == IF seqs = <<>> THEN <<>> ELSE Head(seqs) \o Flatten(Tail(seqs))

Place(refs, ref) == IF ref = None THEN None ELSE CHOOSE i \in 1..Len(refs) : refs[i] = ref

EdgeEnds(S, edge_item) ==
    IF edge_item = None THEN <<>> ELSE <<S.edges[edge_item].src, S.edges[edge_item].dst>>

LiveEdges(S, history) ==
    Distinct(S.escene \o [i \in 1..Len(history) |-> history[i].edge_item], {None})

LiveNodes(S, history, E) ==
    Distinct(S.nscene
             \o <<S.connect_start_node>>
             \o Flatten([i \in 1..Len(E) |-> EdgeEnds(S, E[i])])
             \o Flatten([i \in 1..Len(history) |->
                             <<history[i].node_item, history[i].src_node,
                               history[i].dst_node>>]),
             {None})

LiveNodeData(S, history, N) ==
    Distinct([i \in 1..Len(N) |-> S.nodes[N[i]].data]
             \o [i \in 1..Len(history) |-> history[i].node_data],
             {None})

LiveEdgeData(S, history, E) ==
    Distinct([i \in 1..Len(E) |-> S.edges[E[i]].data]
             \o [i \in 1..Len(history) |-> history[i].edge_data]
             \o Flatten([i \in 1..Len(history) |->
                             [j \in 1..Len(history[i].connected_edges) |->
                                 history[i].connected_edges[j].data]]),
             {None})

PlaceNodeItem(item, ND) == [item EXCEPT !.data = Place(ND, @)]

PlaceEdgeItem(item, N, ED) ==
    [item EXCEPT !.src = Place(N, @), !.dst = Place(N, @), !.data = Place(ED, @)]

PlaceEdgeInfo(info, ED) == [info EXCEPT !.data = Place(ED, @)]

PlaceCommand(c, N, E, ND, ED) ==
    [c EXCEPT !.node_item = Place(N, @), !.src_node = Place(N, @),
              !.dst_node = Place(N, @), !.edge_item = Place(E, @),
              !.node_data = Place(ND, @), !.edge_data = Place(ED, @),
              !.connected_edges = [j \in 1..Len(c.connected_edges) |->
                                      PlaceEdgeInfo(c.connected_edges[j], ED)]]

Placed(S, M, N, E, ND, ED) ==
    [scene |-> [S EXCEPT
                  !.nodes = [i \in 1..Len(N) |-> PlaceNodeItem(S.nodes[N[i]], ND)],
                  !.edges = [i \in 1..Len(E) |-> PlaceEdgeItem(S.edges[E[i]], N, ED)],
                  !.ndata = [i \in 1..Len(ND) |-> S.ndata[ND[i]]],
                  !.edata = [i \in 1..Len(ED) |-> S.edata[ED[i]]],
                  !.nscene = [i \in 1..Len(S.nscene) |-> Place(N, S.nscene[i])],
                  !.connect_start_node = Place(N, @),
                  !.escene = [i \in 1..Len(S.escene) |-> Place(E, S.escene[i])]],
     cm |-> [M EXCEPT !.history = [i \in 1..Len(M.history) |->
                                      PlaceCommand(M.history[i], N, E, ND, ED)]]]

PlacedData(S, M, N, E) ==
    Placed(S, M, N, E, LiveNodeData(S, M.history, N), LiveEdgeData(S, M.history, E))

PlacedNodes(S, M, E) ==
    PlacedData(S, M, LiveNodes(S, M.history, E), E)

Collect(S, M) == PlacedNodes(S, M, LiveEdges(S, M.history))

\* the editor after a call: scene and cm are what Collect gives
Becomes(z) == scene' = z.scene /\ cm' = z.cm

(***************************************************************************)
(* ControlStructureTab: construction and _load_from_model.  A model is     *)
(* [nodes, edges]: sequences of <<node_id, attrs>> and <<u, v, key, attrs>>*)
(* in the order the ControlStructure lists them.                           *)
(***************************************************************************)
RECURSIVE LoadNodes(_, _)
LoadNodes(S, nodes) ==
    IF nodes = <<>> THEN S
    ELSE LET node_id == Head(nodes)[1]
             node_data == Head(nodes)[2]
             data == NewRef(S.ndata)
             item == NewRef(S.nodes)
             nd == [NodeData(DictGet(node_data, "name", PyStr(<<"n">> \o Digits(node_id))))
                      EXCEPT !.states = DictGet(node_data, "states", <<>>),
                             !.shape = DictGet(node_data, "shape", @),
                             !.size = DictGet(node_data, "size", PyFloat(24))]
             pos == DictGet(node_data, "position", DictGet(node_data, "pos", <<0, 0>>))
         IN LoadNodes([S EXCEPT !.ndata = With(@, data, nd),
                                !.nodes = With(@, item, NodeItem(node_id, data, pos)),
                                !.nscene = Append(@, item),
                                !.G = nx_add_node(@, node_id, node_data)],
                      Tail(nodes))

\* the node item the loop over iter_nodes() leaves in src_node / dst_node:
\* the last one listed with that ID
LoadedNode(S, node_id) ==
    LET found == SelectSeq(iter_nodes(S), LAMBDA n : S.nodes[n].node_id = node_id)
    IN IF found = <<>> THEN None ELSE found[Len(found)]

RECURSIVE LoadEdges(_, _)
LoadEdges(S, edges) ==
    IF edges = <<>> THEN S
    ELSE LET u == Head(edges)[1]
             v == Head(edges)[2]
             key == Head(edges)[3]
             edge_data == Head(edges)[4]
             src_node == LoadedNode(S, u)
             dst_node == IF u = v THEN None ELSE LoadedNode(S, v)
             data == NewRef(S.edata)
             item == NewRef(S.edges)
             ed == EdgeData(DictGet(edge_data, "name",
                                    PyStr(<<"e">> \o Digits(u) \o <<"_">> \o Digits(v)
                                          \o <<"_">> \o Digits(key))),
                            DictGet(edge_data, "weight", PyFloat(1)),
                            DictGet(edge_data, "undirected", FALSE),
                            DictGet(edge_data, "bidirectional", FALSE))
         IN LoadEdges(
                IF u \in DOMAIN S.G.nodes /\ v \in DOMAIN S.G.nodes
                   /\ src_node # None /\ dst_node # None
                THEN [S EXCEPT !.edata = With(@, data, ed),
                               !.edges = With(@, item, EdgeItem(src_node, dst_node, data, key)),
                               !.escene = Append(@, item),
                               !.G = nx_add_edge(@, u, v, key, edge_data)]
                ELSE S,
                Tail(edges))

\* the reflow loop at the end of _load_from_model, over the edges of G
RECURSIVE ReflowLoaded(_, _)
ReflowLoaded(S, edges) ==
    IF edges = <<>> THEN S
    ELSE ReflowLoaded(reflow_all_edges_between_nodes(S, Head(edges)[1], Head(edges)[2]),
                      Tail(edges))

load_from_model(model) ==
    ReflowLoaded(LoadEdges(LoadNodes(TabScene, model.nodes), model.edges),
                 model.edges)

(***************************************************************************)
(* The editor's state and the user's gestures.  last is the last call on   *)
(* the CommandManager; snap, run and applied follow the calls for the      *)
(* properties below: snap holds the graph store before and after the last  *)
(* execute_command while only its undo and redo have followed, run counts  *)
(* the commands executed since construction and the undo() calls after     *)
(* them, applied holds the commands that were executed and not undone.     *)
(***************************************************************************)
EmptyModel == [nodes |-> <<>>, edges |-> <<>>]

\* a saved model: nodes 0 and 1 with a description each, joined by the edge
\* (0, 1, key 0) that has a description too
TwoNodeModel ==
    [nodes |-> << <<0, [name |-> PyStr(<<"A">>), states |-> <<>>,
                        shape |-> PyStr(<<"c", "i", "r", "c", "l", "e">>),
                        size |-> PyFloat(24), position |-> <<100, 0>>,
                        description |-> PyStr(<<"p">>)]>>,
                   <<1, [name |-> PyStr(<<"B">>), states |-> <<>>,
                        shape |-> PyStr(<<"c", "i", "r", "c", "l", "e">>),
                        size |-> PyFloat(24), position |-> <<200, 0>>,
                        description |-> PyStr(<<"q">>)]>> >>,
     edges |-> << <<0, 1, 0, [name |-> PyStr(<<"f">>), weight |-> PyFloat(1),
                              undirected |-> FALSE, bidirectional |-> FALSE,
                              description |-> PyStr(<<"r">>)]>> >>]

\* the editor as the application builds it, and an editor that has loaded
\* TwoNodeModel and keeps a history of two commands
StartPool == {<<EmptyModel, MAX_UNDO_HISTORY>>, <<TwoNodeModel, 2>>}

ClickPool == {<<0, 0>>}

DragPool == {<<0, 50>>}

TextPool == {<<"x">>, <<" ">>}

NodePropertyPool ==
    {<<"size", PyStr(<<"3", "0">>)>>, <<"description", PyStr(<<"d">>)>>}

EdgePropertyPool == {<<"description", PyStr(<<"d">>)>>}

ItemIdPool == {<<"0">>, <<"1">>, <<"0", "-", ">", "1">>}

\* the None that the property getters return for a name they do not know
PyNone == [t |-> "None", s |-> <<>>, n |-> 0]

NoSnap == [phase |-> "none", kind |-> "", node_id |-> NoneId,
           before |-> EmptyGraph, after |-> EmptyGraph]

NoRun == [clean |-> FALSE, execs |-> 0, undos |-> 0, err |-> FALSE]

\* what is seen of the editor: the graph store, and the node and edge items
\* of the scene with their IDs, positions and names
View(S) ==
    [G |-> S.G,
     node_count |-> Len(S.nscene),
     edge_count |-> Len(S.escene),
     nodes |-> {[node_id |-> S.nodes[n].node_id, pos |-> S.nodes[n].pos,
                 name |-> S.ndata[S.nodes[n].data].name] : n \in Range(S.nscene)},
     edges |-> {[src |-> S.nodes[S.edges[e].src].node_id,
                 dst |-> S.nodes[S.edges[e].dst].node_id,
                 edge_key |-> S.edges[e].edge_key,
                 name |-> S.edata[S.edges[e].data].name] : e \in Range(S.escene)}]

NoTrail == [phase |-> "none", execs |-> 0, undos |-> 0, redos |-> 0, err |-> FALSE,
            first |-> View(GraphSceneInit(EmptyGraph)),
            top |-> View(GraphSceneInit(EmptyGraph))]

Called(op, r) == [op |-> op, did |-> r.did, raised |-> ~r.ok]

Cids(history) == {history[i].cid : i \in 1..Len(history)}

EdStart(model, cap) ==
    /\ scene = load_from_model(model)
    /\ cm = CommandManagerInit(cap)
    /\ last = [op |-> "init", did |-> FALSE, raised |-> FALSE]
    /\ snap = NoSnap
    /\ run = [clean |-> TRUE, execs |-> 0, undos |-> 0, err |-> FALSE]
    /\ applied = {}
    /\ issued = 0
    /\ made = <<>>
    /\ trail = [NoTrail EXCEPT !.phase = "exec", !.first = View(scene),
                                !.top = View(scene)]

Abs(x) == IF x < 0 THEN -x ELSE x

\* text.strip() of a text of letters and spaces
RECURSIVE strip(_)
strip(text) ==
    IF text = <<>> THEN text
    ELSE IF Head(text) = " " THEN strip(Tail(text))
    ELSE IF text[Len(text)] = " " THEN strip(SubSeq(text, 1, Len(text) - 1))
    ELSE text

\* itemAt(pos) is None: pos is outside the bounding rect of every node item
\* (the edges of the models here pass far from the positions clicked)
EmptySpace(S, pos) ==
    \A n \in Range(S.nscene) :
        LET reach == S.ndata[S.nodes[n].data].size.n + 2
        IN \/ Abs(pos[1] - S.nodes[n].pos[1]) > reach
           \/ Abs(pos[2] - S.nodes[n].pos[2]) > reach

\* the node item can be clicked: it is in the scene and no item added later
\* lies exactly on top of it
Clickable(S, node_item) ==
    \E i \in 1..Len(S.nscene) :
        /\ S.nscene[i] = node_item
        /\ \A j \in (i + 1)..Len(S.nscene) :
               S.nodes[S.nscene[j]].pos # S.nodes[node_item].pos

\* the edge an AddEdge command with serial number cid has created at its
\* first execute, read from the graph store of r
FirstMade(S, cid, r) ==
    LET done == SelectSeq(r.cm.history, LAMBDA h : h.cid = cid)
        e == <<Head(done).src_id, Head(done).dst_id, Head(done).edge_key>>
    IN IF done # <<>> /\ e \in DOMAIN r.scene.G.edges
       THEN [k \in {cid} |->
                [mode |-> S.edge_mode, key |-> e[3],
                 undirected |-> r.scene.G.edges[e].undirected,
                 bidirectional |-> r.scene.G.edges[e].bidirectional]]
       ELSE <<>>

\* the state after command_manager.execute_command(c) has given r, S being
\* the scene before the call
AfterExecute(S, c, r) ==
    /\ Becomes(Collect(r.scene, r.cm))
    /\ issued' = issued + 1
    /\ last' = Called("execute", r)
    /\ applied' = IF r.ok THEN (applied \cup {issued + 1}) \cap Cids(r.cm.history)
                  ELSE applied
    /\ snap' = IF r.ok
               THEN [phase |-> "executed", kind |-> c.kind, node_id |-> c.node_id,
                     before |-> S.G, after |-> r.scene.G]
               ELSE NoSnap
    /\ run' = IF r.ok /\ run.clean /\ run.undos = 0
              THEN [run EXCEPT !.execs = @ + 1] ELSE NoRun
    /\ trail' = IF r.ok /\ trail.phase = "exec"
                THEN [trail EXCEPT !.execs = @ + 1, !.top = View(r.scene)]
                ELSE NoTrail
    /\ made' = IF r.ok
               THEN LET kept == [k \in DOMAIN made \cap Cids(r.cm.history) |-> made[k]]
                    IN IF c.kind = "AddEdge"
                       THEN kept @@ FirstMade(S, issued + 1, r) ELSE kept
               ELSE made

\* the call command_manager.execute_command(command) made by a gesture,
\* S being the scene as the gesture has left it before the call
ExecuteCommand(S, command) ==
    /\ issued < MaxCmds
    /\ AfterExecute(S, command,
                    execute_command(cm, S, [command EXCEPT !.cid = issued + 1]))

\* a gesture that changes the scene without a command
Edit(S) ==
    /\ Becomes(Collect(S, cm))
    /\ snap' = NoSnap
    /\ run' = NoRun
    /\ trail' = NoTrail
    /\ UNCHANGED <<last, applied, issued, made>>

\* GraphScene._create_node, reached by a click on empty space
create_node(pos) ==
    LET data == NewRef(scene.ndata)
        name == PyStr(<<"n">> \o Digits(Cardinality(DOMAIN scene.G.nodes)))
    IN /\ EmptySpace(scene, pos)
       /\ ExecuteCommand([scene EXCEPT !.ndata = With(@, data, NodeData(name))],
                         AddNodeCommand(pos, data))

\* GraphScene._create_edge, reached by a connect gesture from one node item
\* to another one
create_edge(src, dst) ==
    /\ Clickable(scene, src) /\ Clickable(scene, dst) /\ src # dst
    /\ ExecuteCommand(scene, AddEdgeCommand(scene, src, dst))

\* GraphScene._delete_node_item, for a clicked or selected node item
delete_node_item(node) ==
    /\ InScene(scene, node)
    /\ ExecuteCommand(scene, DeleteNodeCommand(scene, node))

\* GraphScene._delete_edge_item, for a clicked or selected edge item
delete_edge_item(edge) ==
    /\ edge \in Range(scene.escene)
    /\ ExecuteCommand(scene, DeleteEdgeCommand(scene, edge))

\* NodeItem.finish_inline_edit with the text of the editor
node_finish_inline_edit(node, text) ==
    LET new_name == PyStr(strip(text))
        old_name == scene.ndata[scene.nodes[node].data].name
    IN /\ Clickable(scene, node)
       /\ IF new_name.s # <<>> /\ new_name # old_name
          THEN ExecuteCommand(scene, RenameNodeCommand(node, old_name, new_name))
          ELSE UNCHANGED edVars

\* EdgeItem.finish_inline_edit with the text of the editor
edge_finish_inline_edit(edge, text) ==
    LET new_name == PyStr(strip(text))
        old_name == scene.edata[scene.edges[edge].data].name
    IN /\ edge \in Range(scene.escene)
       /\ IF new_name.s # <<>> /\ new_name # old_name
          THEN ExecuteCommand(scene, RenameEdgeCommand(edge, old_name, new_name))
          ELSE UNCHANGED edVars

\* _get_node_property_value: [ok, value], ok = FALSE for the KeyError of
\* G.nodes[node_id]
get_node_property_value(S, node, property_name) ==
    LET node_id == S.nodes[node].node_id
        data == S.ndata[S.nodes[node].data]
        inG == node_id \in DOMAIN S.G.nodes
    IN CASE property_name = "name" -> [ok |-> TRUE, value |-> data.name]
         [] property_name = "shape" -> [ok |-> TRUE, value |-> data.shape]
         [] property_name = "size" -> [ok |-> TRUE, value |-> data.size]
         [] property_name = "node_type" ->
              IF inG THEN [ok |-> TRUE, value |-> DictGet(S.G.nodes[node_id], "node_type",
                                                          PyStr(<<"o", "t", "h", "e", "r">>))]
              ELSE [ok |-> FALSE, value |-> PyStr(<<>>)]
         [] property_name = "description" ->
              IF inG THEN [ok |-> TRUE, value |-> DictGet(S.G.nodes[node_id], "description",
                                                          PyStr(<<>>))]
              ELSE [ok |-> FALSE, value |-> PyStr(<<>>)]
         [] OTHER -> [ok |-> TRUE, value |-> PyNone]

\* _get_edge_property_value: [ok, value], ok = FALSE for the KeyError of
\* G[src][dst][key]
get_edge_property_value(S, edge, property_name) ==
    LET e == <<S.nodes[S.edges[edge].src].node_id, S.nodes[S.edges[edge].dst].node_id,
               S.edges[edge].edge_key>>
        data == S.edata[S.edges[edge].data]
        inG == e \in DOMAIN S.G.edges
    IN CASE property_name = "label" -> [ok |-> TRUE, value |-> data.name]
         [] property_name = "weight" -> [ok |-> TRUE, value |-> data.weight]
         [] property_name = "link_type" ->
              IF inG THEN [ok |-> TRUE, value |-> DictGet(S.G.edges[e], "link_type",
                                                          PyStr(<<"o", "t", "h", "e", "r">>))]
              ELSE [ok |-> FALSE, value |-> PyStr(<<>>)]
         [] property_name = "description" ->
              IF inG THEN [ok |-> TRUE, value |-> DictGet(S.G.edges[e], "description",
                                                          PyStr(<<>>))]
              ELSE [ok |-> FALSE, value |-> PyStr(<<>>)]
         [] property_name = "undirected" -> [ok |-> TRUE, value |-> PyBool(data.undirected)]
         [] property_name = "bidirectional" ->
              [ok |-> TRUE, value |-> PyBool(data.bidirectional)]
         [] OTHER -> [ok |-> TRUE, value |-> PyNone]

\* ControlStructureTab._on_property_changed: the first node item whose
\* str(node_id) is item_id, else the first edge item whose "src->dst" is;
\* a KeyError while reading the old value ends the handler
on_property_changed(item_id, property_name, value) ==
    LET nodes == SelectSeq(iter_nodes(scene), LAMBDA n :
                     Digits(scene.nodes[n].node_id) = item_id)
        edges == SelectSeq(iter_edges(scene), LAMBDA e :
                     Digits(scene.nodes[scene.edges[e].src].node_id) \o <<"-", ">">>
                         \o Digits(scene.nodes[scene.edges[e].dst].node_id) = item_id)
        old_n == get_node_property_value(scene, Head(nodes), property_name)
        old_e == get_edge_property_value(scene, Head(edges), property_name)
    IN IF nodes # <<>>
       THEN IF old_n.ok /\ old_n.value # value
            THEN ExecuteCommand(scene, ChangeNodePropertyCommand(
                                    scene, Head(nodes), property_name, old_n.value, value))
            ELSE UNCHANGED edVars
       ELSE IF edges # <<>>
            THEN IF old_e.ok /\ old_e.value # value
                 THEN ExecuteCommand(scene, ChangeEdgePropertyCommand(
                                         scene, Head(edges), property_name, old_e.value, value))
                 ELSE UNCHANGED edVars
            ELSE UNCHANGED edVars

\* NodeItem.mouseReleaseEvent at the end of a drag that has taken the item
\* from its position at the press to new_pos
node_mouse_release(node, new_pos) ==
    LET old_pos == scene.nodes[node].pos
        S == [scene EXCEPT !.nodes[node].pos = new_pos]
    IN /\ Clickable(scene, node)
       /\ new_pos # old_pos
       /\ IF (Abs(new_pos[1] - old_pos[1]) > 1 \/ Abs(new_pos[2] - old_pos[2]) > 1)
             /\ ~scene.applying_command
          THEN ExecuteCommand(S, MoveNodeCommand(node, old_pos, new_pos))
          ELSE Edit(S)

\* the state after CommandManager.undo has given r
AfterUndo(r) ==
    /\ Becomes(Collect(r.scene, r.cm))
    /\ last' = Called("undo", r)
    /\ applied' = IF r.did /\ r.ok
                  THEN applied \ {cm.history[ListPlace(cm.history, cm.current_index)].cid}
                  ELSE applied
    /\ snap' = IF r.did /\ snap.phase = "executed"
               THEN [snap EXCEPT !.phase = "undone"] ELSE NoSnap
    /\ run' = IF ~run.clean THEN NoRun
              ELSE IF r.did /\ ~run.err
                   THEN [run EXCEPT !.undos = @ + 1, !.err = ~r.ok]
                   ELSE run
    /\ trail' = IF ~r.did \/ trail.phase = "none" THEN trail
                ELSE IF trail.phase \in {"exec", "undo"} /\ ~trail.err
                     THEN [trail EXCEPT !.phase = "undo", !.undos = @ + 1,
                                        !.err = ~r.ok]
                     ELSE NoTrail
    /\ UNCHANGED <<issued, made>>

\* a call of CommandManager.undo
call_undo == AfterUndo(undo(cm, scene))

\* the state after CommandManager.redo has given r
AfterRedo(r) ==
    /\ Becomes(Collect(r.scene, r.cm))
    /\ last' = Called("redo", r)
    /\ applied' = IF r.did /\ r.ok
                  THEN applied \cup {cm.history[ListPlace(cm.history, cm.current_index + 1)].cid}
                  ELSE applied
    /\ snap' = IF r.did /\ snap.phase = "undone"
               THEN [snap EXCEPT !.phase = "redone"] ELSE NoSnap
    /\ run' = IF r.did THEN NoRun ELSE run
    /\ trail' = IF ~r.did \/ trail.phase = "none" THEN trail
                ELSE IF /\ trail.phase \in {"undo", "redo"}
                        /\ trail.undos = trail.execs
                        /\ ~trail.err
                     THEN [trail EXCEPT !.phase = "redo", !.redos = @ + 1,
                                        !.err = ~r.ok]
                     ELSE NoTrail
    /\ UNCHANGED <<issued, made>>

\* a call of CommandManager.redo
call_redo == AfterRedo(redo(cm, scene))

Init == IdStart /\ \E start \in StartPool : EdStart(start[1], start[2])

Next ==
    \/ \E pos \in ClickPool : create_node(pos) /\ UNCHANGED idVars
    \/ \E src, dst \in DOMAIN scene.nodes : create_edge(src, dst) /\ UNCHANGED idVars
    \/ \E node \in DOMAIN scene.nodes : delete_node_item(node) /\ UNCHANGED idVars
    \/ \E edge \in DOMAIN scene.edges : delete_edge_item(edge) /\ UNCHANGED idVars
    \/ \E node \in DOMAIN scene.nodes, text \in TextPool :
           node_finish_inline_edit(node, text) /\ UNCHANGED idVars
    \/ \E edge \in DOMAIN scene.edges, text \in TextPool :
           edge_finish_inline_edit(edge, text) /\ UNCHANGED idVars
    \/ \E item_id \in ItemIdPool, p \in NodePropertyPool \cup EdgePropertyPool :
           on_property_changed(item_id, p[1], p[2]) /\ UNCHANGED idVars
    \/ \E node \in DOMAIN scene.nodes, new_pos \in DragPool :
           node_mouse_release(node, new_pos) /\ UNCHANGED idVars
    \/ call_undo /\ UNCHANGED idVars
    \/ call_redo /\ UNCHANGED idVars

Spec == Init /\ [][Next]_vars

IdInit == IdStart /\ EdStart(EmptyModel, MAX_UNDO_HISTORY)

IdNext ==
    \/ \E n \in NodeIdPool : CsAddNode(n) /\ UNCHANGED <<pend, edVars>>
    \/ \E p \in EndPairs, k \in KeyPool : CsAddLink(k, p[1], p[2]) /\ UNCHANGED <<pend, edVars>>
    \/ \E p \in EndPairs, k \in KeyPool : CsAddEdge(p[1], p[2], k) /\ UNCHANGED <<pend, edVars>>
    \/ \E n \in cs.nodes : CsRemoveNodeWithLinks(n) /\ UNCHANGED <<pend, edVars>>
    \/ \E p \in EndPairs, k \in KeyPool : CsRemoveEdge(p[1], p[2], k) /\ UNCHANGED <<pend, edVars>>
    \/ CsClear /\ UNCHANGED <<pend, edVars>>
    \/ CsGetNextNodeId /\ UNCHANGED <<pend, edVars>>
    \/ CsGetNextLinkId /\ UNCHANGED <<pend, edVars>>

SpecIds == IdInit /\ [][IdNext]_vars

(***************************************************************************)
(* add_node and get_next_node_id only, every issued ID being added before  *)
(* the next one is requested.                                              *)
(***************************************************************************)
SparseNodeIdPool ==
    {PyStr(<<"n", "1">>), PyStr(<<"n", "3">>), PyStr(<<"n", "5">>), PyStr(<<"c", "1">>)}

NodeIdsNext ==
    \/ \E n \in SparseNodeIdPool :
           /\ CsAddNode(n)
           /\ pend' = (IF n = PyStr(pend) THEN NoId ELSE pend)
           /\ UNCHANGED edVars
    \/ pend # NoId /\ CsAddNode(PyStr(pend)) /\ pend' = NoId /\ UNCHANGED edVars
    \/ pend = NoId /\ CsGetNextNodeId /\ pend' = ret'.id /\ UNCHANGED edVars

SpecNodeIds == IdInit /\ [][NodeIdsNext]_vars

(***************************************************************************)
(* C9.  The ID returned by get_next_node_id is never the ID of a node in   *)
(* the store, and the ID returned by get_next_link_id is never the key of  *)
(* an edge in the store, whatever calls were made on the ControlStructure. *)
(***************************************************************************)
C9_IssuedIdIsFresh ==
    /\ ret.op = "node" => PyStr(ret.id) \notin cs.nodes
    /\ ret.op = "link" => \A e \in cs.edges : e[3] # PyStr(ret.id)

(***************************************************************************)
(* C10.  With only add_node and get_next_node_id called, and every issued  *)
(* ID added before the next request, get_next_node_id returns n<m+1> where *)
(* m is the largest k with a node n<k> in the store (0 when there is none).*)
(***************************************************************************)
C10_LargestNodeNumber ==
    SetMax({k \in 1..(MaxCounter + 1) : PyStr(FormatId("n", k)) \in cs.nodes})

C10_NextNodeIdIsMaxPlusOne ==
    ret.op = "node" => ret.id = FormatId("n", C10_LargestNodeNumber + 1)

\* n6 is issued for a store that holds n1, n3, n5 and c1, after n2 was issued
\* and added
C10_Witness ==
    /\ ret.op = "node"
    /\ ret.id = <<"n", "6">>
    /\ cs.nodes = SparseNodeIdPool \cup {PyStr(<<"n", "2">>)}

(***************************************************************************)
(* Properties of the editor's history.                                     *)
(***************************************************************************)
CidSeq(history) == [i \in 1..Len(history) |-> history[i].cid]

LastOf(s, n) == IF Len(s) > n THEN SubSeq(s, Len(s) - n + 1, Len(s)) ELSE s

\* C1: when a command has been executed through execute_command and undo()
\* follows immediately, the graph store has the same nodes, the same edges
\* (source, target, key) and the same attribute values as before the
\* execute.
C1_UndoRestoresGraphStore ==
    snap.phase = "undone" => scene.G = snap.before

\* C2: when a command has been executed through execute_command and undo()
\* and then redo() follow immediately, the graph store equals the graph
\* store right after the execute_command.
C2_RedoRestoresExecuted ==
    snap.phase = "redone" => scene.G = snap.after

C2_Witness ==
    /\ snap.phase = "redone"
    /\ snap.kind = "DeleteNode"
    /\ ~last.raised
    /\ snap.after # snap.before

BasicKinds == {"AddNode", "AddEdge", "DeleteNode", "DeleteEdge"}

EdgeIdentity(S, e) ==
    <<S.nodes[S.edges[e].src].node_id, S.nodes[S.edges[e].dst].node_id,
      S.edges[e].edge_key>>

\* C3: while every command issued so far is an add-node, add-edge,
\* delete-node or delete-edge that is still in the history (so only these,
\* undo and redo have acted), no two node items of the scene share a node
\* ID and no two edge items of the scene share source, target and key.
C3_NoSharedIdentity ==
    (/\ Len(cm.history) = issued
     /\ \A i \in 1..Len(cm.history) : cm.history[i].kind \in BasicKinds)
    => /\ \A i, j \in 1..Len(scene.nscene) :
              i # j => scene.nodes[scene.nscene[i]].node_id
                           # scene.nodes[scene.nscene[j]].node_id
       /\ \A i, j \in 1..Len(scene.escene) :
              i # j => EdgeIdentity(scene, scene.escene[i])
                           # EdgeIdentity(scene, scene.escene[j])

\* C4: after more than max_history commands executed with no undo, the
\* history holds exactly the max_history most recent commands; the undo()
\* calls that follow raise nothing, and after max_history of them
\* can_undo() is false.
C4_CapThenUndoAll ==
    (run.clean /\ run.execs > cm.max_history)
    => /\ ~run.err
       /\ run.undos = 0 =>
              CidSeq(cm.history)
                  = [i \in 1..cm.max_history |-> run.execs - cm.max_history + i]
       /\ run.undos = cm.max_history => ~can_undo(cm)

\* C5: an execute_command that returns leaves the commands up to the cursor
\* followed by the new command (the oldest one dropped when the history is
\* full), so no command that had been undone remains, and can_redo() is
\* false right after it.
C5_ExecuteTruncates ==
    [][(issued' = issued + 1 /\ ~last'.raised)
       => /\ ~can_redo(cm')
          /\ CidSeq(cm'.history)
                = LastOf(SubSeq(CidSeq(cm.history), 1, cm.current_index + 1)
                             \o <<issued'>>,
                         cm.max_history)]_vars

\* execute(A); execute(B); undo(); execute(C) has left [A, C]
C5_Witness ==
    /\ last.op = "execute" /\ ~last.raised
    /\ CidSeq(cm.history) = <<1, 3>>
    /\ cm.current_index = 1

\* C6: the cursor lies between -1 and len(history) - 1, the history is no
\* longer than max_history, and the commands up to the cursor are exactly
\* the applied ones (executed and not undone), those after it the undone
\* ones.
C6_CursorSeparatesApplied ==
    /\ -1 <= cm.current_index
    /\ cm.current_index <= Len(cm.history) - 1
    /\ Len(cm.history) <= cm.max_history
    /\ \A i \in 1..Len(cm.history) :
           (cm.history[i].cid \in applied) <=> (i <= cm.current_index + 1)

\* C7: undo() called with current_index = -1, and redo() called with
\* current_index = len(history) - 1, raise nothing and leave the history,
\* the cursor and the graph store as they were.
C7_PastTheEndsIsNoOp ==
    [][(\/ cm.current_index = -1 /\ call_undo
        \/ cm.current_index = Len(cm.history) - 1 /\ call_redo)
       => /\ ~last'.raised
          /\ cm' = cm
          /\ scene'.G = scene.G]_vars

\* undo() has been called with every command of a history of two undone
C7_Witness ==
    /\ last.op = "undo" /\ ~last.did
    /\ cm.current_index = -1
    /\ Len(cm.history) = 2

\* C8: executing DeleteNode removes the node and its incident edges from the
\* graph store and nothing else, and the undo that follows gives back the
\* node and these edges with their attributes and keys.
C8_DeleteNodeAndBack ==
    snap.kind = "DeleteNode"
    => /\ snap.phase = "executed" =>
              scene.G = nx_remove_node(snap.before, snap.node_id)
       /\ snap.phase = "undone" => scene.G = snap.before

(***************************************************************************)
(* C11.  get_next_link_id returns e<m+1>, m being the largest number among *)
(* the keys of the edges in the store (e<k> counts as k, an int key as     *)
(* itself, 0 when there is none), also when an ID had been issued before   *)
(* the edges were added: every ID issued earlier being the key of an edge  *)
(* by now, the ID returned is e<m+1>.                                      *)
(***************************************************************************)
C11_EarlierIdsAreKeys ==
    \A id \in gen.cached_link_ids.ids \ {ret.id} :
        \E e \in cs.edges : PyToStr(e[3]) = id

C11_NextLinkIdIsMaxPlusOne ==
    (ret.op = "link" /\ C11_EarlierIdsAreKeys)
    => ret.id = FormatId("e", SetMax(LinkNums(cs)) + 1)

(***************************************************************************)
(* C12.  When command.execute() or command.undo() raises inside            *)
(* execute_command, undo or redo, the call leaves the history and          *)
(* current_index as they were and the graph store unmodified; a redo that  *)
(* raises does not leave the cursor advanced.                              *)
(***************************************************************************)
C12_RaisingCallChangesNothing ==
    [][(last'.raised /\ (issued' = issued + 1 \/ call_undo \/ call_redo))
       => /\ CidSeq(cm'.history) = CidSeq(cm.history)
          /\ cm'.current_index = cm.current_index
          /\ scene'.G = scene.G]_vars

(***************************************************************************)
(* C13.  add_link and add_edge called with a source or a target that is    *)
(* not a node of the store fail with an error and leave the store as it    *)
(* was: no edge is added and no node is created.                           *)
(***************************************************************************)
C13_MissingEndpointFails ==
    [][\A p \in EndPairs, k \in KeyPool :
          (/\ ~({p[1], p[2]} \subseteq cs.nodes)
           /\ (CsAddLink(k, p[1], p[2]) \/ CsAddEdge(p[1], p[2], k)))
          => (ret'.raised /\ cs' = cs)]_vars

(***************************************************************************)
(* ControlStructure.add_node and add_node_with_data on a store that keeps  *)
(* the attributes of its nodes: cs is the MultiDiGraph, a map from node ID *)
(* to attribute dict.                                                      *)
(***************************************************************************)
\* SystemNode(id=node_id, name=name, **kwargs): the dataclass and its defaults
SystemNode(id, name, kwargs) ==
    DictUpdate([id |-> id, name |-> name, position |-> <<0, 0>>,
                shape |-> PyStr(<<"c", "i", "r", "c", "l", "e">>),
                size |-> PyFloat(DEFAULT_NODE_SIZE),
                description |-> PyStr(<<>>), states |-> <<>>],
               kwargs)

add_node_with_data(node_id, name, kwargs) ==
    LET node == SystemNode(node_id, name, kwargs)
        node_attrs == Without(node, {"id"})
    IN /\ cs' = nx_add_node(cs, node_id, node_attrs)
       /\ gen' = register_node_id(gen, node_id)
       /\ ret' = Returned("other", NoId)

add_node(node_id, name, kwargs) == add_node_with_data(node_id, name, kwargs)

NamePool == {PyStr(<<"A">>), PyStr(<<"B">>)}

KwargsPool == {EmptyDict, [description |-> PyStr(<<"d">>)]}

AddNodeInit ==
    /\ cs = EmptyGraph
    /\ gen = IDGeneratorInit(TRUE)
    /\ ret = Returned("other", NoId)
    /\ pend = NoId
    /\ EdStart(EmptyModel, MAX_UNDO_HISTORY)

AddNodeNext ==
    \/ \E n \in NodeIdPool, name \in NamePool, kw \in KwargsPool :
           add_node_with_data(n, name, kw) /\ UNCHANGED <<pend, edVars>>
    \/ \E n \in NodeIdPool, name \in NamePool, kw \in KwargsPool :
           add_node(n, name, kw) /\ UNCHANGED <<pend, edVars>>

SpecAddNode == AddNodeInit /\ [][AddNodeNext]_vars

(***************************************************************************)
(* C14.  add_node and add_node_with_data called with an ID that is already *)
(* a node of the store fail with an error and leave the attributes of the  *)
(* existing node as they were.                                             *)
(***************************************************************************)
C14_DuplicateIdFails ==
    [][\A n \in NodeIdPool, name \in NamePool, kw \in KwargsPool :
          (/\ n \in DOMAIN cs.nodes
           /\ (add_node(n, name, kw) \/ add_node_with_data(n, name, kw)))
          => (ret'.raised /\ cs'.nodes[n] = cs.nodes[n])]_vars

(***************************************************************************)
(* The two graph stores side by side: the ControlStructure, called with    *)
(* add_node, add_edge and remove_node_with_links, and the graph of an      *)
(* editor that has loaded TwoNodeModel, where nodes and edges are created  *)
(* and nodes deleted through the command manager.                          *)
(***************************************************************************)
\* two endpoint pairs that share n3, and one key
LinkEnds ==
    {<<PyStr(<<"n", "1">>), PyStr(<<"n", "3">>)>>,
     <<PyStr(<<"n", "3">>), PyStr(<<"n", "2">>)>>}

LinkKeys == {PyStr(<<"e", "1">>)}

StoresInit == IdStart /\ EdStart(TwoNodeModel, 2)

StoresNext ==
    \/ \E p \in LinkEnds : CsAddNode(p[1]) /\ UNCHANGED <<pend, edVars>>
    \/ \E p \in LinkEnds, k \in LinkKeys :
           CsAddEdge(p[1], p[2], k) /\ UNCHANGED <<pend, edVars>>
    \/ \E n \in cs.nodes : CsRemoveNodeWithLinks(n) /\ UNCHANGED <<pend, edVars>>
    \/ \E pos \in ClickPool : create_node(pos) /\ UNCHANGED idVars
    \/ \E src, dst \in DOMAIN scene.nodes : create_edge(src, dst) /\ UNCHANGED idVars
    \/ \E node \in DOMAIN scene.nodes : delete_node_item(node) /\ UNCHANGED idVars
    \/ call_undo /\ UNCHANGED idVars
    \/ call_redo /\ UNCHANGED idVars

SpecStores == StoresInit /\ [][StoresNext]_vars

\* the source and the target of every edge are nodes, in both stores
C15_EndpointsAreNodes ==
    /\ \A e \in cs.edges : {e[1], e[2]} \subseteq cs.nodes
    /\ \A e \in DOMAIN scene.G.edges : {e[1], e[2]} \subseteq DOMAIN scene.G.nodes

\* DeleteNode has taken the node and exactly the edges at it out of the graph
C15_DeleteNodeTakesItsEdges ==
    (snap.kind = "DeleteNode" /\ snap.phase = "executed")
    => /\ DOMAIN scene.G.nodes = (DOMAIN snap.before.nodes) \ {snap.node_id}
       /\ DOMAIN scene.G.edges =
              {e \in DOMAIN snap.before.edges :
                   e[1] # snap.node_id /\ e[2] # snap.node_id}

\* remove_node_with_links takes the node and exactly the edges at it
C15_RemoveNodeTakesItsEdges ==
    \A n \in cs.nodes :
        CsRemoveNodeWithLinks(n)
        => /\ cs'.nodes = cs.nodes \ {n}
           /\ cs'.edges = {e \in cs.edges : e[1] # n /\ e[2] # n}

(***************************************************************************)
(* C15.  In every reachable state of a graph store the source and the      *)
(* target of every edge are nodes of the store, and removing a node, with  *)
(* remove_node_with_links or with DeleteNode in the editor, removes every  *)
(* edge that has it as source or target and no other edge.                 *)
(***************************************************************************)
C15_EdgesFollowNodes ==
    /\ [](C15_EndpointsAreNodes /\ C15_DeleteNodeTakesItsEdges)
    /\ [][C15_RemoveNodeTakesItsEdges]_vars

\* DeleteNode has removed a node with an edge at it while another edge stays,
\* and the ControlStructure holds edges
C15_Witness ==
    /\ snap.kind = "DeleteNode" /\ snap.phase = "executed"
    /\ \E e \in DOMAIN snap.before.edges : snap.node_id \in {e[1], e[2]}
    /\ DOMAIN scene.G.edges # {}
    /\ cs.edges # {}

(***************************************************************************)
(* The properties panel sending values that are not numbers for 'size' and *)
(* 'weight', in an editor where nodes and edges are created and deleted.   *)
(***************************************************************************)
BadNumberPool == {<<"size", PyStr(<<"x">>)>>, <<"weight", PyStr(<<"x">>)>>}

PropertiesNext ==
    \/ \E pos \in ClickPool : create_node(pos) /\ UNCHANGED idVars
    \/ \E src, dst \in DOMAIN scene.nodes : create_edge(src, dst) /\ UNCHANGED idVars
    \/ \E node \in DOMAIN scene.nodes : delete_node_item(node) /\ UNCHANGED idVars
    \/ \E edge \in DOMAIN scene.edges : delete_edge_item(edge) /\ UNCHANGED idVars
    \/ \E item_id \in ItemIdPool, p \in BadNumberPool \cup NodePropertyPool :
           on_property_changed(item_id, p[1], p[2]) /\ UNCHANGED idVars
    \/ call_undo /\ UNCHANGED idVars
    \/ call_redo /\ UNCHANGED idVars

SpecProperties == Init /\ [][PropertiesNext]_vars

\* a 'size' or 'weight' change whose new value float() does not take
BadNumberCommand(c) ==
    /\ \/ c.kind = "ChangeNodeProperty" /\ c.property_name = "size"
       \/ c.kind = "ChangeEdgeProperty" /\ c.property_name = "weight"
    /\ ~CanFloat(c.new_value)

\* the data objects of the items in the scene, in the order of the scene
SceneData(S) ==
    <<[i \in 1..Len(S.nscene) |-> S.ndata[S.nodes[S.nscene[i]].data]],
      [i \in 1..Len(S.escene) |-> S.edata[S.edges[S.escene[i]].data]]>>

\* the command at index i of the history is such a change
BadNumberAt(M, i) ==
    /\ i >= 0
    /\ ListPlace(M.history, i) # 0
    /\ BadNumberCommand(M.history[ListPlace(M.history, i)])

\* a step that executes, undoes or redoes such a change
C16_BadNumberStep ==
    \/ /\ issued' = issued + 1
       /\ \E item_id \in ItemIdPool, p \in BadNumberPool :
              on_property_changed(item_id, p[1], p[2])
    \/ BadNumberAt(cm, cm.current_index) /\ call_undo
    \/ BadNumberAt(cm, cm.current_index + 1) /\ call_redo

(***************************************************************************)
(* C16.  ChangeNodeProperty 'size' and ChangeEdgeProperty 'weight' with a  *)
(* value that is not a number raise no exception and change neither the    *)
(* graph store nor the data of an item, when they are executed and when    *)
(* they are undone or redone later.                                        *)
(***************************************************************************)
C16_BadNumberIsIgnored ==
    [][C16_BadNumberStep
       => /\ ~last'.raised
          /\ scene'.G = scene.G
          /\ SceneData(scene') = SceneData(scene)]_vars

(***************************************************************************)
(* ControlStructureTab.sync_to_model: the ControlStructure that the tab    *)
(* writes from the graph of the scene.  The position of every node item of *)
(* the scene goes into the graph first; the name the model gets is the     *)
(* 'name' attribute of the graph, "Node <id>" where there is none.         *)
(***************************************************************************)
\* _sync_node_to_graph for every item of iter_nodes, the last one winning
SyncedPosition(S, n, attrs) ==
    LET items == {i \in 1..Len(iter_nodes(S)) : S.nodes[iter_nodes(S)[i]].node_id = n}
    IN IF items = {} THEN attrs
       ELSE With(attrs, "position", S.nodes[iter_nodes(S)[SetMax(items)]].pos)

sync_to_model(S) ==
    [nodes |-> [n \in DOMAIN S.G.nodes |->
                   LET data == SyncedPosition(S, n, S.G.nodes[n])
                       name == DictGet(data, "name",
                                       PyStr(<<"N", "o", "d", "e", " ">> \o Digits(n)))
                   IN Without(SystemNode(n, name, Without(data, {"id", "name"})), {"id"})],
     edges |-> S.G.edges]

\* the rename command at index i of the history, the name that node or edge
\* has in the graph store being name
RenamedTo(S, M, i, name) ==
    LET c == M.history[ListPlace(M.history, i)]
        node_id == S.nodes[c.node_item].node_id
        e == S.edges[c.edge_item]
        edge == <<S.nodes[e.src].node_id, S.nodes[e.dst].node_id, e.edge_key>>
    IN IF c.kind = "RenameNode"
       THEN /\ node_id \in DOMAIN S.G.nodes
            /\ DictGet(S.G.nodes[node_id], "name", PyNone) = name
            /\ sync_to_model(S).nodes[node_id].name = name
       ELSE /\ edge \in DOMAIN S.G.edges
            /\ DictGet(S.G.edges[edge], "name", PyNone) = name
            /\ DictGet(sync_to_model(S).edges[edge], "name", PyNone) = name

(***************************************************************************)
(* C17.  After RenameNode (RenameEdge) has executed, the name attribute of *)
(* that node (edge) in the graph store is the new name, and after its undo *)
(* it is the old name again.                                               *)
(***************************************************************************)
C17_RenameReachesStore ==
    (snap.kind \in {"RenameNode", "RenameEdge"} /\ ~last.raised)
    => /\ snap.phase = "executed" =>
              RenamedTo(scene, cm, cm.current_index,
                        cm.history[ListPlace(cm.history, cm.current_index)].new_name)
       /\ snap.phase = "undone" =>
              RenamedTo(scene, cm, cm.current_index + 1,
                        cm.history[ListPlace(cm.history, cm.current_index + 1)].old_name)

(***************************************************************************)
(* Parallel edges between the two nodes of a loaded model: edges are       *)
(* created and deleted through the command manager, which reflows the pair *)
(* at the end of every creation and deletion, and the pair is reflowed     *)
(* directly, named either way round.                                       *)
(***************************************************************************)
ReflowInit == IdStart /\ EdStart(TwoNodeModel, MAX_UNDO_HISTORY)

\* a call of GraphScene._reflow_all_edges_between_nodes(u, v)
call_reflow(u, v) ==
    /\ Becomes(Collect(reflow_all_edges_between_nodes(scene, u, v), cm))
    /\ last' = [op |-> "reflow", did |-> TRUE, raised |-> FALSE]
    /\ snap' = NoSnap
    /\ run' = NoRun
    /\ trail' = NoTrail
    /\ UNCHANGED <<applied, issued, made>>

ReflowNext ==
    \/ \E src, dst \in DOMAIN scene.nodes : create_edge(src, dst) /\ UNCHANGED idVars
    \/ \E edge \in DOMAIN scene.edges : delete_edge_item(edge) /\ UNCHANGED idVars
    \/ \E u, v \in DOMAIN scene.G.nodes : u # v /\ call_reflow(u, v) /\ UNCHANGED idVars
    \/ call_undo /\ UNCHANGED idVars
    \/ call_redo /\ UNCHANGED idVars

SpecReflow == ReflowInit /\ [][ReflowNext]_vars

\* the edge items of the scene between the nodes u and v, in either direction
EdgesBetween(S, u, v) ==
    {e \in Range(S.escene) :
         <<S.nodes[S.edges[e].src].node_id, S.nodes[S.edges[e].dst].node_id>>
             \in {<<u, v>>, <<v, u>>}}

OffsetsBetween(S, u, v) == {S.edges[e].curve_offset : e \in EdgesBetween(S, u, v)}

\* the N edges between u and v have the N offsets (i - (N - 1) / 2) * 50
EvenlySpaced(S, u, v) ==
    LET N == Cardinality(EdgesBetween(S, u, v))
        offsets == OffsetsBetween(S, u, v)
    IN N >= 1 =>
         /\ offsets = {(2 * i - (N - 1)) * 25 : i \in 0..(N - 1)}
         /\ Cardinality(offsets) = N
         /\ \A o \in offsets : (0 - o) \in offsets
         /\ (0 \in offsets) <=> (N % 2 = 1)
         /\ N = 1 => offsets = {0}
         /\ N = 2 => offsets = {0 - 25, 25}

(***************************************************************************)
(* C18.  After a reflow of the N >= 1 edges between two distinct nodes     *)
(* their offsets are exactly (i - (N - 1) / 2) * 50 for i = 0..N-1:        *)
(* pairwise distinct, symmetric about 0, with 0 among them exactly when N  *)
(* is odd; one edge gets 0 and two edges get -25 and +25.                  *)
(***************************************************************************)
C18_ReflowSpacesEvenly ==
    [][\A u, v \in DOMAIN scene.G.nodes :
          (u # v /\ call_reflow(u, v)) => EvenlySpaced(scene', u, v)]_vars

\* four edges between the nodes 0 and 1, in both directions, reflowed
C18_Witness ==
    /\ last.op = "reflow"
    /\ Cardinality(EdgesBetween(scene, 0, 1)) = 4
    /\ \E e \in Range(scene.escene) : scene.nodes[scene.edges[e].src].node_id = 1
    /\ \E e \in Range(scene.escene) : scene.nodes[scene.edges[e].src].node_id = 0

\* the offset of every edge item of the scene
OffsetOf(S) == [e \in Range(S.escene) |-> S.edges[e].curve_offset]

\* an edge has just been created (the handler ends with a reflow of its
\* pair), or the pair has just been reflowed
C19_JustReflowed ==
    \/ last.op = "reflow"
    \/ /\ last.op = "execute" /\ ~last.raised
       /\ ListPlace(cm.history, cm.current_index) # 0
       /\ cm.history[ListPlace(cm.history, cm.current_index)].kind = "AddEdge"

(***************************************************************************)
(* C19.  For a fixed set of parallel edges between A and B, in any mix of  *)
(* directions, the offset of each edge is the same whatever the order in   *)
(* which the edges were inserted, and reflow(A, B) and reflow(B, A) assign *)
(* the same offset to every edge: once the pair has been reflowed, by a    *)
(* creation or directly, every edge has the offset that a reflow of the    *)
(* pair named either way round assigns.                                    *)
(***************************************************************************)
C19_OffsetsIgnoreOrder ==
    C19_JustReflowed
    => \A u, v \in DOMAIN scene.G.nodes :
           u # v => OffsetOf(reflow_all_edges_between_nodes(scene, u, v)) = OffsetOf(scene)

(***************************************************************************)
(* C20.  Reflow is idempotent: a second reflow of the same pair right      *)
(* after the first leaves every offset as it is.                           *)
(***************************************************************************)
C20_ReflowIsIdempotent ==
    [][\A u, v \in DOMAIN scene.G.nodes :
          (u # v /\ call_reflow(u, v))
          => OffsetOf(reflow_all_edges_between_nodes(scene', u, v)) = OffsetOf(scene')]_vars

\* three edges between the nodes 0 and 1, in both directions, reflowed
C20_Witness ==
    /\ last.op = "reflow"
    /\ Cardinality(EdgesBetween(scene, 0, 1)) = 3
    /\ \E e \in Range(scene.escene) : scene.nodes[scene.edges[e].src].node_id = 1
    /\ \E e \in Range(scene.escene) : scene.nodes[scene.edges[e].src].node_id = 0
    /\ OffsetsBetween(scene, 0, 1) = {0 - 50, 0, 50}

(***************************************************************************)
(* The interaction mode state machine: the toolbar's mode actions, the     *)
(* scene's mode setters called directly, the connect key (C) and the       *)
(* mouse, in an editor that has loaded TwoNodeModel.  under is the node    *)
(* item under the mouse pointer, None over empty space.                    *)
(***************************************************************************)
InteractionModes == {"move", "add_node", "connect", "delete"}

\* GraphScene._node_under_mouse / itemAt: the topmost node item at a place
UnderMouse(S) == {None} \cup {n \in Range(S.nscene) : Clickable(S, n)}

\* GraphScene.keyPressEvent for Qt.Key_C
keyPressEvent(S, under) ==
    IF S.c_key_held THEN S
    ELSE LET S1 == [S EXCEPT !.c_key_held = TRUE]
             S2 == IF ~S1.adding_node /\ ~S1.connecting
                   THEN set_nodes_movable(S1, FALSE) ELSE S1
         IN IF under # None THEN [S2 EXCEPT !.connect_start_node = under] ELSE S2

KeyReleased_KeepsStart(S) ==
    LET S1 == [S EXCEPT !.c_key_held = FALSE]
    IN IF ~S1.adding_node /\ ~S1.connecting THEN set_nodes_movable(S1, TRUE) ELSE S1

\* the end of keyReleaseEvent, after the edge (if any) has been created
KeyReleased(S) ==
    LET S1 == [S EXCEPT !.connect_start_node = None, !.c_key_held = FALSE]
    IN IF ~S1.adding_node /\ ~S1.connecting THEN set_nodes_movable(S1, TRUE) ELSE S1

\* the end of mouseReleaseEvent in a connect gesture
MouseReleased(S) == [S EXCEPT !.connect_start_node = None]

\* what a handler leaves when _create_edge has given r: an exception of
\* execute() leaves the handler before its last lines
KeyReleaseAfter(r) == IF r.ok THEN [r EXCEPT !.scene = KeyReleased(@)] ELSE r

MouseReleaseAfter(r) == IF r.ok THEN [r EXCEPT !.scene = MouseReleased(@)] ELSE r

\* _create_edge(src, dst) as the handlers call it
CreateEdgeCommand(src, dst) ==
    [AddEdgeCommand(scene, src, dst) EXCEPT !.cid = issued + 1]

select_mode(mode) == Edit(set_interaction_mode(scene, mode))

call_set_adding_node(enabled) == Edit(set_adding_node(scene, enabled))

call_set_connecting(enabled) == Edit(set_connecting(scene, enabled))

call_set_deleting(enabled) == Edit(set_deleting(scene, enabled))

key_press(under) == Edit(keyPressEvent(scene, under))

\* GraphScene.keyReleaseEvent for Qt.Key_C
key_release(under) ==
    /\ scene.c_key_held
    /\ IF under # None /\ scene.connect_start_node # None
          /\ under # scene.connect_start_node
       THEN /\ issued < MaxCmds
            /\ AfterExecute(scene, CreateEdgeCommand(scene.connect_start_node, under),
                            KeyReleaseAfter(execute_command(
                                cm, scene,
                                CreateEdgeCommand(scene.connect_start_node, under))))
       ELSE Edit(KeyReleased(scene))

\* GraphScene.mousePressEvent, left button, on a node item
mouse_press_node(node) ==
    IF scene.deleting THEN delete_node_item(node)
    ELSE IF scene.c_key_held THEN Edit([scene EXCEPT !.connect_start_node = node])
    ELSE IF scene.adding_node THEN UNCHANGED edVars
    ELSE IF scene.connecting THEN Edit([scene EXCEPT !.connect_start_node = node])
    ELSE UNCHANGED edVars

\* GraphScene.mousePressEvent, left button, on an edge item
mouse_press_edge(edge) ==
    IF scene.deleting THEN delete_edge_item(edge) ELSE UNCHANGED edVars

\* GraphScene.mousePressEvent, left button, on empty space
mouse_press_empty(pos) ==
    /\ EmptySpace(scene, pos)
    /\ IF scene.deleting THEN UNCHANGED edVars
       ELSE IF scene.adding_node THEN create_node(pos)
       ELSE UNCHANGED edVars

\* GraphScene.mouseMoveEvent: with C held the first node passed over starts
\* the connection
mouse_move(under) ==
    IF scene.c_key_held /\ under # None /\ scene.connect_start_node = None
    THEN Edit([scene EXCEPT !.connect_start_node = under])
    ELSE UNCHANGED edVars

\* GraphScene.mouseReleaseEvent, left button, S being the scene as the
\* press before it has left it
ReleaseOver(S, under) ==
    IF S.connect_start_node # None /\ (S.connecting \/ S.c_key_held)
    THEN IF under # None /\ under # S.connect_start_node
         THEN /\ issued < MaxCmds
              /\ AfterExecute(S, [AddEdgeCommand(S, S.connect_start_node, under)
                                     EXCEPT !.cid = issued + 1],
                              MouseReleaseAfter(execute_command(
                                  cm, S,
                                  [AddEdgeCommand(S, S.connect_start_node, under)
                                      EXCEPT !.cid = issued + 1])))
         ELSE Edit(MouseReleased(S))
    ELSE UNCHANGED edVars

mouse_release(under) == ReleaseOver(scene, under)

\* a click on a node in connect mode: mousePressEvent makes the node the
\* start of a connection, mouseReleaseEvent at the same place ends it
click_node(node) ==
    /\ scene.connecting
    /\ ~scene.deleting
    /\ ReleaseOver([scene EXCEPT !.connect_start_node = node], node)

ModesNext ==
    \/ \E mode \in InteractionModes : select_mode(mode) /\ UNCHANGED idVars
    \/ \E enabled \in BOOLEAN : call_set_adding_node(enabled) /\ UNCHANGED idVars
    \/ \E enabled \in BOOLEAN : call_set_connecting(enabled) /\ UNCHANGED idVars
    \/ \E enabled \in BOOLEAN : call_set_deleting(enabled) /\ UNCHANGED idVars
    \/ \E under \in UnderMouse(scene) : key_press(under) /\ UNCHANGED idVars
    \/ \E under \in UnderMouse(scene) : key_release(under) /\ UNCHANGED idVars
    \/ \E node \in UnderMouse(scene) \ {None} : mouse_press_node(node) /\ UNCHANGED idVars
    \/ \E edge \in Range(scene.escene) : mouse_press_edge(edge) /\ UNCHANGED idVars
    \/ \E pos \in ClickPool : mouse_press_empty(pos) /\ UNCHANGED idVars
    \/ \E under \in UnderMouse(scene) : mouse_move(under) /\ UNCHANGED idVars
    \/ \E under \in UnderMouse(scene) : mouse_release(under) /\ UNCHANGED idVars
    \/ \E node \in UnderMouse(scene) \ {None} : click_node(node) /\ UNCHANGED idVars

SpecModes == ReflowInit /\ [][ModesNext]_vars

\* the top-level modes that are active
ActiveModes(S) ==
    {m \in {"add_node", "connect", "delete"} :
         \/ m = "add_node" /\ S.adding_node
         \/ m = "connect" /\ S.connecting
         \/ m = "delete" /\ S.deleting}

(***************************************************************************)
(* C21.  In every reachable state at most one of the modes AddNode,        *)
(* Connect and Delete is active (Move is the state where none is), after   *)
(* any sequence of set_adding_node, set_connecting, set_deleting and       *)
(* _set_interaction_mode calls.                                            *)
(***************************************************************************)
C21_AtMostOneMode == Cardinality(ActiveModes(scene)) <= 1

\* Delete is the active mode, set by a direct call or by the toolbar after
\* AddNode was the mode of the new tab
C21_Witness == ActiveModes(scene) = {"delete"}

\* the mode whose toolbar action was triggered last, read from the flags
Selected(S, mode) ==
    /\ S.adding_node = (mode = "add_node")
    /\ S.connecting = (mode = "connect")
    /\ S.deleting = (mode = "delete")

\* ItemIsMovable of every node item that is in the scene, in the scene's order
Draggability(S) == [i \in DOMAIN S.nscene |-> S.nodes[S.nscene[i]].movable]

(* C22: immediately after a mode-select action every node in the scene is
   non-draggable if the selected mode is add_node, connect or delete and
   draggable if it is move; selecting the same mode a second time gives the
   scene the first selection gave. *)
C22_ModeSetsDraggability ==
    [][\A mode \in InteractionModes :
          (Selected(scene', mode) /\ select_mode(mode))
              => /\ \A n \in Range(scene'.nscene) :
                        scene'.nodes[n].movable = (mode = "move")
                 /\ set_interaction_mode(scene', mode) = scene']_vars

C22_Witness ==
    /\ Selected(scene, "move")
    /\ Range(scene.nscene) # {}
    /\ \A n \in Range(scene.nscene) : scene.nodes[n].movable
    /\ ~scene.c_key_held
    /\ issued > 0

\* a press of the C key that is not an auto-repeat, seen as a step
KeyPressed ==
    /\ ~scene.c_key_held
    /\ scene'.c_key_held
    /\ \E under \in UnderMouse(scene) : key_press(under)

(* C23: in each of the four modes, pressing the C key and releasing it with
   no mode change in between leaves the draggability of every node as it was
   before the key was pressed. *)
C23_KeyLeavesDraggability ==
    [][KeyPressed => Draggability(KeyReleased(scene')) = Draggability(scene)]_vars

\* the same outside the delete mode
C23_OutsideDeleteMode ==
    [][(KeyPressed /\ ~scene.deleting)
          => Draggability(KeyReleased(scene')) = Draggability(scene)]_vars

\* the history as the list of its commands' serial numbers
HistoryCids(M) == [i \in DOMAIN M.history |-> M.history[i].cid]

\* the step has appended one AddEdge command src_id -> dst_id, created by it,
\* to the history and nothing else
AppendedAddEdge(src_id, dst_id) ==
    /\ issued' = issued + 1
    /\ HistoryCids(cm') = Append(HistoryCids(cm), issued + 1)
    /\ cm'.current_index = Len(cm'.history) - 1
    /\ LET c == cm'.history[Len(cm'.history)]
       IN /\ c.kind = "AddEdge"
          /\ c.src_id = src_id
          /\ c.dst_id = dst_id

\* the step has created no command and left the history as it was
AppendedNothing ==
    /\ issued' = issued
    /\ HistoryCids(cm') = HistoryCids(cm)
    /\ cm'.current_index = cm.current_index

\* a release of the C key over `under`, seen as a step
KeyReleasedOver(under) == scene.c_key_held /\ key_release(under)

(* C24: in every mode, pressing the C key over node A makes A the pending
   start node; releasing the key over a different node B appends exactly one
   AddEdge command A->B to the history; releasing it over A itself or over no
   node appends no command and clears the pending start node. *)
C24_KeyGestureConnects ==
    [][/\ \A A \in UnderMouse(scene) \ {None} :
              (~scene.c_key_held /\ scene'.c_key_held /\ key_press(A))
                  => /\ scene'.connect_start_node # None
                     /\ scene'.nodes[scene'.connect_start_node].node_id
                            = scene.nodes[A].node_id
       /\ \A B \in UnderMouse(scene) :
              (scene.connect_start_node # None /\ KeyReleasedOver(B))
                  => IF B # None /\ B # scene.connect_start_node
                     THEN AppendedAddEdge(scene.nodes[scene.connect_start_node].node_id,
                                          scene.nodes[B].node_id)
                     ELSE AppendedNothing /\ scene'.connect_start_node = None]_vars

\* the key was pressed over a node and released over another one in delete mode
C24_Witness ==
    /\ scene.deleting
    /\ ~scene.c_key_held
    /\ last.op = "execute" /\ ~last.raised
    /\ snap.phase = "executed"
    /\ cm.history # <<>>
    /\ cm.history[Len(cm.history)].kind = "AddEdge"
    /\ cm.history[Len(cm.history)].src_id = 1
    /\ cm.history[Len(cm.history)].dst_id = 0

\* a click on `node` in connect mode, seen as a step
Clicked(node) == scene.connecting /\ ~scene.deleting /\ click_node(node)

(* C25: in connect mode, selecting (clicking) node A makes A the pending start
   node, and then selecting a different node B appends exactly one AddEdge
   command A->B; selecting A again appends no command; in both cases the
   pending start node is cleared afterwards. *)
C25_ClicksConnect ==
    [][\A node \in UnderMouse(scene) \ {None} :
          Clicked(node)
              => IF scene.connect_start_node = None
                 THEN /\ AppendedNothing
                      /\ scene'.connect_start_node # None
                      /\ scene'.nodes[scene'.connect_start_node].node_id
                             = scene.nodes[node].node_id
                 ELSE IF node # scene.connect_start_node
                 THEN /\ AppendedAddEdge(scene.nodes[scene.connect_start_node].node_id,
                                         scene.nodes[node].node_id)
                      /\ scene'.connect_start_node = None
                 ELSE AppendedNothing /\ scene'.connect_start_node = None]_vars

\* what the handlers do: a press on A followed by a release over another node
\* B (a drag from A to B) appends one AddEdge command A->B, a release over A
\* or over no node appends nothing, and the start is cleared
C25_DragConnects ==
    [][\A B \in UnderMouse(scene) :
          (scene.connecting /\ scene.connect_start_node # None /\ mouse_release(B))
              => IF B # None /\ B # scene.connect_start_node
                 THEN /\ AppendedAddEdge(scene.nodes[scene.connect_start_node].node_id,
                                         scene.nodes[B].node_id)
                      /\ scene'.connect_start_node = None
                 ELSE AppendedNothing /\ scene'.connect_start_node = None]_vars

(***************************************************************************)
(* Edge-creation modes: edges are drawn in the three modes, deleted, undone *)
(* and redone, and the flags of an edge are edited in the property panel.   *)
(***************************************************************************)
EdgeModes == {"directed", "undirected", "bidirectional"}

FlagPool == {<<"undirected", PyBool(TRUE)>>}

EdgeIdPool == {<<"0", "-", ">", "1">>, <<"1", "-", ">", "0">>}

\* a toolbar action of the edge-mode group
call_set_edge_mode(mode) == Edit(set_edge_mode(scene, mode))

EdgeModeNext ==
    \/ \E mode \in EdgeModes : call_set_edge_mode(mode) /\ UNCHANGED idVars
    \/ \E src, dst \in DOMAIN scene.nodes : create_edge(src, dst) /\ UNCHANGED idVars
    \/ \E edge \in DOMAIN scene.edges : delete_edge_item(edge) /\ UNCHANGED idVars
    \/ \E item_id \in EdgeIdPool, p \in FlagPool :
           on_property_changed(item_id, p[1], p[2]) /\ UNCHANGED idVars
    \/ call_undo /\ UNCHANGED idVars
    \/ call_redo /\ UNCHANGED idVars

SpecEdgeMode == ReflowInit /\ [][EdgeModeNext]_vars

\* the flags the edge-creation mode stands for
ModeFlags(mode) ==
    [undirected |-> mode = "undirected", bidirectional |-> mode = "bidirectional"]

\* the command that call_redo executes again
RedoneCommand == cm.history[cm.current_index + 2]

\* the graph store holds the edge of the AddEdge command c with the key and
\* the flags of m
HoldsEdge(G, c, m) ==
    /\ <<c.src_id, c.dst_id, m.key>> \in DOMAIN G.edges
    /\ G.edges[<<c.src_id, c.dst_id, m.key>>].undirected = m.undirected
    /\ G.edges[<<c.src_id, c.dst_id, m.key>>].bidirectional = m.bidirectional

(* C26: the edge an AddEdge command creates at its first execute has the
   flags (undirected, bidirectional) of the edge-creation mode in force then;
   when the command is redone after an undo, whatever the edge-creation mode
   is by then, the edge is recreated with the flags and the key of the first
   execute. *)
C26_FlagsFromFirstExecute ==
    /\ [](\A k \in DOMAIN made :
              /\ made[k].undirected = ModeFlags(made[k].mode).undirected
              /\ made[k].bidirectional = ModeFlags(made[k].mode).bidirectional)
    /\ [][(/\ can_redo(cm)
           /\ RedoneCommand.kind = "AddEdge"
           /\ RedoneCommand.cid \in DOMAIN made
           /\ call_redo
           /\ ~last'.raised)
              => HoldsEdge(scene'.G, RedoneCommand, made[RedoneCommand.cid])]_vars

\* the same when the flags of the edge were not edited since the first execute
C26_UneditedFlags ==
    [][(/\ can_redo(cm)
        /\ RedoneCommand.kind = "AddEdge"
        /\ RedoneCommand.cid \in DOMAIN made
        /\ scene.edata[RedoneCommand.edge_data].undirected
               = made[RedoneCommand.cid].undirected
        /\ scene.edata[RedoneCommand.edge_data].bidirectional
               = made[RedoneCommand.cid].bidirectional
        /\ call_redo
        /\ ~last'.raised)
           => HoldsEdge(scene'.G, RedoneCommand, made[RedoneCommand.cid])]_vars

(***************************************************************************)
(* Inline renaming: an edit session of a label is one step, from the click  *)
(* that opens the editor with the current name to finish_inline_edit.       *)
(***************************************************************************)
\* texts typed into the inline editor
EditPool == {<<"x">>, <<" ">>, <<>>}

\* names typed into the property panel, which emits them as they are
PanelNamePool == {<<"name", PyStr(<<"A", " ">>)>>, <<"label", PyStr(<<"f", " ">>)>>}

PanelIdPool == {<<"0">>, <<"0", "-", ">", "1">>}

\* InlineTextEdit.keyPressEvent with Key_Escape on a node label: the text is
\* set back to original_text, the name the editor was opened with, and
\* editingFinished calls finish_inline_edit
node_cancel_inline_edit(node) ==
    node_finish_inline_edit(node, scene.ndata[scene.nodes[node].data].name.s)

\* the same on an edge label
edge_cancel_inline_edit(edge) ==
    edge_finish_inline_edit(edge, scene.edata[scene.edges[edge].data].name.s)

RenameNext ==
    \/ \E node \in DOMAIN scene.nodes, text \in EditPool :
           node_finish_inline_edit(node, text) /\ UNCHANGED idVars
    \/ \E edge \in DOMAIN scene.edges, text \in EditPool :
           edge_finish_inline_edit(edge, text) /\ UNCHANGED idVars
    \/ \E node \in DOMAIN scene.nodes : node_cancel_inline_edit(node) /\ UNCHANGED idVars
    \/ \E edge \in DOMAIN scene.edges : edge_cancel_inline_edit(edge) /\ UNCHANGED idVars
    \/ \E item_id \in PanelIdPool, p \in PanelNamePool :
           on_property_changed(item_id, p[1], p[2]) /\ UNCHANGED idVars
    \/ call_undo /\ UNCHANGED idVars
    \/ call_redo /\ UNCHANGED idVars

SpecRename == ReflowInit /\ [][RenameNext]_vars

\* the step has created one command of the kind, renaming old_name to
\* new_name, and put it at the end of the history
AppendedRename(kind, old_name, new_name) ==
    /\ issued' = issued + 1
    /\ HistoryCids(cm') = Append(SubSeq(HistoryCids(cm), 1, cm.current_index + 1),
                                 issued + 1)
    /\ LET c == cm'.history[Len(cm'.history)]
       IN c.kind = kind /\ c.old_name = old_name /\ c.new_name = new_name

NodeName(S, node) == S.ndata[S.nodes[node].data].name

EdgeName(S, edge) == S.edata[S.edges[edge].data].name

\* what an edit session that ends with `text` in the editor has to record for
\* an item named old_name: nothing for a text that is the name or is blank,
\* one Rename command for another name
RenameRecorded(kind, old_name, text) ==
    IF text = old_name.s \/ strip(text) = <<>>
    THEN AppendedNothing
    ELSE strip(text) # old_name.s => AppendedRename(kind, old_name, PyStr(strip(text)))

(* C27: cancelling an inline rename leaves the name of the node or edge equal
   to the pre-edit text and appends no command; committing an empty or
   unchanged text appends none; committing a changed non-empty text appends
   exactly one Rename command. *)
C27_InlineRename ==
    [][/\ \A node \in Range(scene.nscene) :
              /\ node_cancel_inline_edit(node)
                     => AppendedNothing /\ NodeName(scene', node) = NodeName(scene, node)
              /\ \A text \in EditPool \cup {NodeName(scene, node).s} :
                     node_finish_inline_edit(node, text)
                         => RenameRecorded("RenameNode", NodeName(scene, node), text)
       /\ \A edge \in Range(scene.escene) :
              /\ edge_cancel_inline_edit(edge)
                     => AppendedNothing /\ EdgeName(scene', edge) = EdgeName(scene, edge)
              /\ \A text \in EditPool \cup {EdgeName(scene, edge).s} :
                     edge_finish_inline_edit(edge, text)
                         => RenameRecorded("RenameEdge", EdgeName(scene, edge), text)]_vars

\* the same for the items whose name has no space at either end
C27_TrimmedNames ==
    [][/\ \A node \in Range(scene.nscene) :
              strip(NodeName(scene, node).s) = NodeName(scene, node).s
              => /\ node_cancel_inline_edit(node)
                     => AppendedNothing /\ NodeName(scene', node) = NodeName(scene, node)
                 /\ \A text \in EditPool \cup {NodeName(scene, node).s} :
                        node_finish_inline_edit(node, text)
                            => RenameRecorded("RenameNode", NodeName(scene, node), text)
       /\ \A edge \in Range(scene.escene) :
              strip(EdgeName(scene, edge).s) = EdgeName(scene, edge).s
              => /\ edge_cancel_inline_edit(edge)
                     => AppendedNothing /\ EdgeName(scene', edge) = EdgeName(scene, edge)
                 /\ \A text \in EditPool \cup {EdgeName(scene, edge).s} :
                        edge_finish_inline_edit(edge, text)
                            => RenameRecorded("RenameEdge", EdgeName(scene, edge), text)]_vars

(***************************************************************************)
(* Dragging: a drag of a node item is one step, from the press that stores  *)
(* _drag_start_pos to the release at the position the item was dragged to.  *)
(***************************************************************************)
\* positions a node is released at: 1 unit from where TwoNodeModel puts
\* node 0, and 2 units further
ReleasePool == {<<100, 1>>, <<100, 3>>}

DragNext ==
    \/ \E pos \in ClickPool : create_node(pos) /\ UNCHANGED idVars
    \/ \E node \in DOMAIN scene.nodes : delete_node_item(node) /\ UNCHANGED idVars
    \/ \E node \in DOMAIN scene.nodes, new_pos \in ReleasePool :
           node_mouse_release(node, new_pos) /\ UNCHANGED idVars
    \/ call_undo /\ UNCHANGED idVars
    \/ call_redo /\ UNCHANGED idVars

SpecDrag == ReflowInit /\ [][DragNext]_vars

\* the step has created one MoveNode command old_pos -> new_pos and put it at
\* the end of the history
AppendedMove(old_pos, new_pos) ==
    /\ issued' = issued + 1
    /\ Cids(cm'.history) \ Cids(cm.history) = {issued + 1}
    /\ LET c == cm'.history[Len(cm'.history)]
       IN c.cid = issued + 1 /\ c.kind = "MoveNode"
          /\ c.old_pos = old_pos /\ c.new_pos = new_pos

\* the drag has taken the item more than 1 unit along x or along y
MovedFar(old_pos, new_pos) ==
    Abs(new_pos[1] - old_pos[1]) > 1 \/ Abs(new_pos[2] - old_pos[2]) > 1

(* C28: the release that ends a drag of a node appends exactly one MoveNode
   command, from the position at the press to the position at the release,
   when the node has moved more than 1 unit in x or in y, and appends no
   command when it has moved at most 1 unit in both. *)
C28_DragRecordsMove ==
    [][\A node \in Range(scene.nscene), new_pos \in ReleasePool :
          node_mouse_release(node, new_pos)
              => IF MovedFar(scene.nodes[node].pos, new_pos)
                 THEN AppendedMove(scene.nodes[node].pos, new_pos)
                 ELSE AppendedNothing]_vars

\* the same for the drags of a node that the graph store holds, outside a
\* command that is being applied
C28_NodeInGraph ==
    [][\A node \in Range(scene.nscene), new_pos \in ReleasePool :
          (/\ scene.nodes[node].node_id \in DOMAIN scene.G.nodes
           /\ ~scene.applying_command
           /\ node_mouse_release(node, new_pos))
              => IF MovedFar(scene.nodes[node].pos, new_pos)
                 THEN AppendedMove(scene.nodes[node].pos, new_pos)
                 ELSE AppendedNothing]_vars

(* C29: no command is created or appended to the history by a drag release
   while scene._applying_command is true, and _applying_command is false
   whenever no command is being applied, that is in every state between two
   handlers. *)
C29_ApplyingOnlyInsideCommands ==
    /\ [](~scene.applying_command)
    /\ [][\A node \in Range(scene.nscene), new_pos \in ReleasePool :
              (scene.applying_command /\ node_mouse_release(node, new_pos))
                  => AppendedNothing]_vars

\* the first half alone: a release while the flag is set records nothing
C29_NoCommandWhileApplying ==
    [][\A node \in Range(scene.nscene), new_pos \in ReleasePool :
          (scene.applying_command /\ node_mouse_release(node, new_pos))
              => AppendedNothing]_vars

(***************************************************************************)
(* Saving and loading the graph store (core/file_io.py): _model_to_dict    *)
(* turns the control structure of a model into the document that is        *)
(* written as JSON, _dict_to_model builds the control structure of a new   *)
(* model from such a document.  cs is the store with the attributes of its *)
(* nodes and edges; ret.model is the store of the model that was loaded.   *)
(***************************************************************************)
\* State(name=..., description=..., is_initial=...): an object with a __dict__
State(name, description, is_initial) ==
    [cls |-> "State", name |-> name, description |-> description,
     is_initial |-> is_initial]

\* hasattr(state, '__dict__'): true of a State object, false of a str
HasDict(state) == "cls" \in DOMAIN state

\* list(t) for a tuple t, and tuple(l) for such a list
list(t) == [t |-> "list", v |-> t]

tuple(l) == l.v

\* the elements of a set in the order in which the graph yields them
RECURSIVE Listed(_)
Listed(S) == IF S = {} THEN <<>>
             ELSE LET x == CHOOSE y \in S : TRUE IN <<x>> \o Listed(S \ {x})

\* ControlLink(id=link_id, source_id=..., target_id=..., **kwargs).__dict__
ControlLink(link_id, source_id, target_id, kwargs) ==
    DictUpdate([id |-> link_id, source_id |-> source_id, target_id |-> target_id,
                name |-> PyStr(<<>>), description |-> PyStr(<<>>),
                weight |-> PyFloat(1), undirected |-> PyBool(FALSE),
                bidirectional |-> PyBool(FALSE)],
               kwargs)

\* ControlStructure.add_link on the store with attributes
add_link(link_id, source_id, target_id, kwargs) ==
    /\ cs' = nx_add_edge(cs, source_id, target_id, link_id,
                         ControlLink(link_id, source_id, target_id, kwargs))
    /\ gen' = register_link_id(gen, link_id)
    /\ ret' = Returned("other", NoId)

\* control_structure.add_edge(u, v, key=key, **data), as the editor stores
\* its edges in the model: MultiDiGraph.add_edge
add_edge(u, v, key, data) ==
    /\ cs' = nx_add_edge(cs, u, v, key, data)
    /\ gen' = gen
    /\ ret' = Returned("other", NoId)

\* the entry of 'states' for one state of a node
state_to_dict(state) ==
    IF HasDict(state)
    THEN [name |-> state.name, description |-> state.description,
          is_initial |-> state.is_initial]
    ELSE state

node_to_dict(node_id, node_attrs) ==
    LET states == DictGet(node_attrs, "states", <<>>)
    IN [id |-> node_id,
        name |-> DictGet(node_attrs, "name", PyStr(<<>>)),
        position |-> list(DictGet(node_attrs, "position", <<0, 0>>)),
        shape |-> DictGet(node_attrs, "shape", PyStr(<<"c", "i", "r", "c", "l", "e">>)),
        size |-> DictGet(node_attrs, "size", PyFloat(DEFAULT_NODE_SIZE)),
        description |-> DictGet(node_attrs, "description", PyStr(<<>>)),
        states |-> [i \in 1..Len(states) |-> state_to_dict(states[i])]]

edge_to_dict(src, dst, key, edge_attrs) ==
    [id |-> PyStr(PyToStr(key)),
     source_id |-> src,
     target_id |-> dst,
     name |-> DictGet(edge_attrs, "name", PyStr(<<>>)),
     description |-> DictGet(edge_attrs, "description", PyStr(<<>>)),
     weight |-> DictGet(edge_attrs, "weight", PyFloat(1)),
     undirected |-> DictGet(edge_attrs, "undirected", PyBool(FALSE)),
     bidirectional |-> DictGet(edge_attrs, "bidirectional", PyBool(FALSE))]

\* the 'control_structure' entry of the document
model_to_dict(G) ==
    LET node_ids == Listed(DOMAIN G.nodes)
        edges == Listed(DOMAIN G.edges)
    IN [nodes |-> [i \in 1..Len(node_ids) |->
                      node_to_dict(node_ids[i], G.nodes[node_ids[i]])],
        edges |-> [i \in 1..Len(edges) |->
                      edge_to_dict(edges[i][1], edges[i][2], edges[i][3],
                                   G.edges[edges[i]])]]

\* state_data['name'] raises TypeError for a str
StateReadable(state_data) == "name" \in DOMAIN state_data

dict_to_state(state_data) ==
    State(state_data.name,
          DictGet(state_data, "description", PyStr(<<>>)),
          DictGet(state_data, "is_initial", PyBool(FALSE)))

\* the position of a node record that ignores the legacy 'pos' field
position_data_NoLegacy(node_data) ==
    LET position == DictGet(node_data, "position", PyNone)
    IN IF position = PyNone THEN list(<<0, 0>>) ELSE position

\* node_data.get('position'), and when that is None the legacy 'pos' field,
\* [0.0, 0.0] when there is neither
position_data(node_data) ==
    LET position == DictGet(node_data, "position", PyNone)
    IN IF position = PyNone
       THEN DictGet(node_data, "pos", list(<<0, 0>>))
       ELSE position

\* add_node(node_id, name=..., position=tuple(...), ..., states=[]), then
\* nodes[node_id]['states'] = states
dict_to_node(G, node_data) ==
    LET node == SystemNode(node_data.id,
                           DictGet(node_data, "name", PyStr(<<>>)),
                           [position |-> tuple(position_data(node_data)),
                            shape |-> DictGet(node_data, "shape",
                                              PyStr(<<"c", "i", "r", "c", "l", "e">>)),
                            size |-> DictGet(node_data, "size",
                                             PyFloat(DEFAULT_NODE_SIZE)),
                            description |-> DictGet(node_data, "description",
                                                    PyStr(<<>>)),
                            states |-> <<>>])
        added == nx_add_node(G, node_data.id, Without(node, {"id"}))
        state_list == DictGet(node_data, "states", <<>>)
        states == [i \in 1..Len(state_list) |-> dict_to_state(state_list[i])]
    IN [added EXCEPT !.nodes[node_data.id].states = states]

dict_to_edge(G, edge_data) ==
    LET edge_id == edge_data.id
        src == edge_data.source_id
        dst == edge_data.target_id
    IN nx_add_edge(G, src, dst, edge_id,
                   [id |-> edge_id, source_id |-> src, target_id |-> dst,
                    name |-> DictGet(edge_data, "name", PyStr(<<>>)),
                    description |-> DictGet(edge_data, "description", PyStr(<<>>)),
                    weight |-> DictGet(edge_data, "weight", PyFloat(1)),
                    undirected |-> DictGet(edge_data, "undirected", PyBool(FALSE)),
                    bidirectional |-> DictGet(edge_data, "bidirectional",
                                              PyBool(FALSE))])

RECURSIVE DictNodes(_, _)
DictNodes(G, nodes) ==
    IF nodes = <<>> THEN G ELSE DictNodes(dict_to_node(G, Head(nodes)), Tail(nodes))

RECURSIVE DictEdges(_, _)
DictEdges(G, edges) ==
    IF edges = <<>> THEN G ELSE DictEdges(dict_to_edge(G, Head(edges)), Tail(edges))

\* [raised, model]: the control structure of the model built from the document,
\* or the TypeError of the first state that is not a dict
dict_to_model(data) ==
    IF \A i \in 1..Len(data.nodes) :
           LET states == DictGet(data.nodes[i], "states", <<>>)
           IN \A j \in 1..Len(states) : StateReadable(states[j])
    THEN [raised |-> FALSE,
          model |-> DictEdges(DictNodes(EmptyGraph, data.nodes), data.edges)]
    ELSE [raised |-> TRUE, model |-> EmptyGraph]

\* save the store and load what was saved
save_load ==
    LET loaded == dict_to_model(model_to_dict(cs))
    IN /\ ret' = [op |-> "load", id |-> NoId, raised |-> loaded.raised,
                  model |-> loaded.model]
       /\ UNCHANGED <<cs, gen>>

\* load a document that was not written by this program
load_dict(data) ==
    LET loaded == dict_to_model(data)
    IN /\ ret' = [op |-> "load_dict", id |-> NoId, raised |-> loaded.raised,
                  model |-> loaded.model, data |-> data]
       /\ UNCHANGED <<cs, gen>>

\* node IDs and edge keys as the editor makes them (integers), link IDs as
\* the ID generator makes them (strings)
FileNodeIds == {PyInt(0), PyInt(1)}

FileEdgeKeys == {PyInt(0), PyInt(1)}

FileLinkIds == {PyStr(<<"e", "1">>), PyStr(<<"e", "2">>)}

\* a node without states, with State objects, with the str states of the editor
FileStates ==
    {<<>>,
     <<State(PyStr(<<"o", "n">>), PyStr(<<>>), PyBool(TRUE))>>,
     <<PyStr(<<"o", "n">>)>>}

\* node records with and without 'position' and the legacy 'pos'
PositionPool == {list(<<1, 2>>), list(<<3, 4>>), list(<<5, 6>>)}

NodeRecords(id) ==
    LET base == [id |-> id, name |-> PyStr(<<"A">>)]
    IN {base}
       \cup {DictUpdate(base, [position |-> p]) : p \in PositionPool}
       \cup {DictUpdate(base, [pos |-> p]) : p \in PositionPool}
       \cup {DictUpdate(base, [position |-> p, pos |-> q]) :
                 p \in PositionPool, q \in PositionPool}

\* documents of one or two node records
LegacyDocs ==
    {[nodes |-> <<r>>, edges |-> <<>>] : r \in NodeRecords(PyInt(0))}
    \cup {[nodes |-> <<r, q>>, edges |-> <<>>] :
              r \in NodeRecords(PyInt(0)), q \in NodeRecords(PyInt(1))}

\* EdgeData of the editor: name, weight, undirected, bidirectional
FileEdgeData ==
    [name |-> PyStr(<<"e">>), weight |-> PyFloat(1),
     undirected |-> PyBool(FALSE), bidirectional |-> PyBool(FALSE)]

FileIONext ==
    \/ \E n \in FileNodeIds, states \in FileStates :
           /\ n \notin DOMAIN cs.nodes
           /\ add_node(n, PyStr(<<"A">>), [states |-> states])
           /\ UNCHANGED <<pend, edVars>>
    \/ \E key \in FileEdgeKeys :
           /\ FileNodeIds \subseteq DOMAIN cs.nodes
           /\ add_edge(PyInt(0), PyInt(1), key, FileEdgeData)
           /\ UNCHANGED <<pend, edVars>>
    \/ \E link_id \in FileLinkIds :
           /\ FileNodeIds \subseteq DOMAIN cs.nodes
           /\ add_link(link_id, PyInt(0), PyInt(1), EmptyDict)
           /\ UNCHANGED <<pend, edVars>>
    \/ save_load /\ UNCHANGED <<pend, edVars>>

SpecFileIO == AddNodeInit /\ [][FileIONext]_vars

\* documents with legacy fields, loaded one after the other
LegacyNext ==
    \E data \in LegacyDocs : load_dict(data) /\ UNCHANGED <<pend, edVars>>

SpecLegacy == AddNodeInit /\ [][LegacyNext]_vars

\* the loaded store has the node IDs, the edges and the attribute values of G
SameStore(G, loaded) == loaded = G

\* the edge keys of the store are all strings
StringKeys(G) == \A e \in DOMAIN G.edges : e[3].t = "str"

(***************************************************************************)
(* C30.  Loading what was saved gives the store back: after a save and a   *)
(* load the loading has not failed, and the loaded store has the node IDs, *)
(* the (source, target, key) triples and the attribute values of the store *)
(* that was saved, integer edge keys, parallel edges and nodes with states *)
(* included.                                                               *)
(***************************************************************************)
C30_LoadSaveIsIdentity ==
    ret.op = "load" => (~ret.raised /\ SameStore(cs, ret.model))

\* what does hold: a store whose edges were all added as links and whose
\* states are State objects is loaded as it was saved
C30_LinksRoundTrip ==
    (/\ ret.op = "load"
     /\ StringKeys(cs)
     /\ \A n \in DOMAIN cs.nodes :
            \A i \in 1..Len(cs.nodes[n].states) : HasDict(cs.nodes[n].states[i]))
        => (~ret.raised /\ SameStore(cs, ret.model))

\* a loaded store never has fewer nodes, and its keys are the str() of the keys
C30_KeysBecomeStrings ==
    (ret.op = "load" /\ ~ret.raised)
        => /\ DOMAIN ret.model.nodes = DOMAIN cs.nodes
           /\ DOMAIN ret.model.edges =
                  {<<e[1], e[2], PyStr(PyToStr(e[3]))>> : e \in DOMAIN cs.edges}

\* a store with two parallel integer-keyed edges and a node with states was
\* saved and loaded
C30_Reached ==
    /\ ret.op = "load"
    /\ ~ret.raised
    /\ {<<PyInt(0), PyInt(1), PyInt(0)>>, <<PyInt(0), PyInt(1), PyInt(1)>>}
           \subseteq DOMAIN cs.edges
    /\ \E n \in DOMAIN cs.nodes : cs.nodes[n].states # <<>>

\* the position that the claim gives a node record
ExpectedPosition(node_data) ==
    IF "position" \in DOMAIN node_data THEN node_data.position.v
    ELSE IF "pos" \in DOMAIN node_data THEN node_data.pos.v
    ELSE <<0, 0>>

(***************************************************************************)
(* C31.  A loaded node record without 'position' takes its position from   *)
(* the legacy 'pos' field when it has one and is at (0.0, 0.0) otherwise;   *)
(* a record with 'position' uses it whatever 'pos' says; the loaded node   *)
(* stores the value under 'position' and has no 'pos' attribute.           *)
(***************************************************************************)
C31_LegacyPosition ==
    ret.op = "load_dict" =>
        /\ ~ret.raised
        /\ \A i \in 1..Len(ret.data.nodes) :
               LET node_data == ret.data.nodes[i]
                   loaded == ret.model.nodes[node_data.id]
               IN /\ "position" \in DOMAIN loaded
                  /\ "pos" \notin DOMAIN loaded
                  /\ loaded.position = ExpectedPosition(node_data)

\* a document was loaded with a record that has only 'pos' and a record that
\* has 'position' and a different 'pos'
C31_Witness ==
    /\ ret.op = "load_dict"
    /\ \E i, j \in 1..Len(ret.data.nodes) :
           /\ "position" \notin DOMAIN ret.data.nodes[i]
           /\ "pos" \in DOMAIN ret.data.nodes[i]
           /\ ret.model.nodes[ret.data.nodes[i].id].position = <<3, 4>>
           /\ "position" \in DOMAIN ret.data.nodes[j]
           /\ "pos" \in DOMAIN ret.data.nodes[j]
           /\ ret.data.nodes[j].pos # ret.data.nodes[j].position

(***************************************************************************)
(* The state machine of a node (core/models.py): SystemNode.add_state and  *)
(* get_initial_state.  The SystemNode that get_node_data returns shares    *)
(* its list of states with the node of the store, so the states are those  *)
(* of cs.nodes.                                                            *)
(***************************************************************************)
MaxStates == 3

\* add_state that appends without clearing the initial states
add_state_KeepsInitial(states, name, description, is_initial) ==
    Append(states, State(name, description, is_initial))

\* add_state(name, description, is_initial) on the list of states
add_state(states, name, description, is_initial) ==
    LET cleared == IF bool(is_initial)
                   THEN [i \in 1..Len(states) |->
                            [states[i] EXCEPT !.is_initial = PyBool(FALSE)]]
                   ELSE states
    IN Append(cleared, State(name, description, is_initial))

\* get_initial_state(): the first state whose is_initial is true, or None
get_initial_state(states) ==
    IF \E i \in 1..Len(states) : bool(states[i].is_initial)
    THEN states[CHOOSE i \in 1..Len(states) :
                    /\ bool(states[i].is_initial)
                    /\ \A j \in 1..(i - 1) : ~bool(states[j].is_initial)]
    ELSE PyNone

\* get_node_data(node_id).add_state(name, is_initial=is_initial)
node_add_state(node_id, name, is_initial) ==
    /\ node_id \in DOMAIN cs.nodes
    /\ Len(cs.nodes[node_id].states) < MaxStates
    /\ cs' = [cs EXCEPT !.nodes[node_id].states =
                            add_state(@, name, PyStr(<<>>), is_initial)]
    /\ gen' = gen
    /\ ret' = [op |-> "add_state", id |-> node_id, raised |-> FALSE,
               before |-> cs.nodes[node_id].states]

StateNames == {PyStr(<<"o", "n">>), PyStr(<<"o", "f", "f">>)}

StatesNext ==
    \/ \E n \in FileNodeIds :
           /\ n \notin DOMAIN cs.nodes
           /\ add_node(n, PyStr(<<"A">>), EmptyDict)
           /\ UNCHANGED <<pend, edVars>>
    \/ \E n \in FileNodeIds, name \in StateNames, is_initial \in BOOLEAN :
           /\ node_add_state(n, name, PyBool(is_initial))
           /\ UNCHANGED <<pend, edVars>>

SpecStates == AddNodeInit /\ [][StatesNext]_vars

\* the places of the initial states in a list of states
InitialPlaces(states) == {i \in 1..Len(states) : bool(states[i].is_initial)}

(***************************************************************************)
(* C32.  A node that started without states and got its states through     *)
(* add_state has at most one initial state, and after an add_state with    *)
(* is_initial = True the state that was added is the only initial one and  *)
(* is what get_initial_state returns.                                      *)
(***************************************************************************)
C32_OneInitialState ==
    /\ [](\A n \in DOMAIN cs.nodes :
              Cardinality(InitialPlaces(cs.nodes[n].states)) <= 1)
    /\ [][\A n \in FileNodeIds, name \in StateNames :
              node_add_state(n, name, PyBool(TRUE))
                  => LET states == cs'.nodes[n].states
                     IN /\ InitialPlaces(states) = {Len(states)}
                        /\ states[Len(states)].name = name
                        /\ get_initial_state(states) = states[Len(states)]]_vars

\* a node with an earlier state that was initial has got a new initial state
C32_Witness ==
    /\ ret.op = "add_state"
    /\ InitialPlaces(ret.before) = {1}
    /\ LET states == cs.nodes[ret.id].states
       IN /\ Len(states) = 3
          /\ InitialPlaces(states) = {3}
          /\ states[1].name # states[3].name

(***************************************************************************)
(* C33.  n commands (n no more than the history holds) executed one after  *)
(* the other from the editor as constructed, with nothing else in between: *)
(* the n undo() calls that follow raise nothing and leave the graph store  *)
(* and the scene as they were before the first command, and the n redo()   *)
(* calls after them raise nothing and leave the graph store and the scene  *)
(* as they were after the n-th command.                                    *)
(***************************************************************************)
C33_UndoAllRedoAll ==
    (trail.phase # "none" /\ trail.execs <= cm.max_history)
    => /\ ~trail.err
       /\ (trail.phase = "undo" /\ trail.undos = trail.execs)
              => View(scene) = trail.first
       /\ (trail.phase = "redo" /\ trail.redos = trail.execs)
              => View(scene) = trail.top

\* what does hold: while no command of the run deletes a node or an edge,
\* no undo() of the run raises, and after the last one the graph store and
\* the scene are as they were before the first command
C33_UndoAllWithoutDeletes ==
    (/\ trail.phase \in {"exec", "undo"}
     /\ trail.execs <= cm.max_history
     /\ \A i \in 1..Len(cm.history) :
            cm.history[i].kind \notin {"DeleteNode", "DeleteEdge"})
    => /\ ~trail.err
       /\ (trail.phase = "undo" /\ trail.undos = trail.execs)
              => View(scene) = trail.first

\* two commands were executed, undone and redone
C33_Reached ==
    /\ trail.phase = "redo"
    /\ trail.execs = 2
    /\ trail.redos = 2
    /\ ~trail.err

\* the node items of the scene are, one for one, the nodes of the graph store,
\* and its edge items are, one for one, the edges of the graph store
SceneMatchesStore(S) ==
    /\ Len(S.nscene) = Cardinality(DOMAIN S.G.nodes)
    /\ {S.nodes[n].node_id : n \in Range(S.nscene)} = DOMAIN S.G.nodes
    /\ Len(S.escene) = Cardinality(DOMAIN S.G.edges)
    /\ {EdgeIdentity(S, e) : e \in Range(S.escene)} = DOMAIN S.G.edges

(***************************************************************************)
(* C34.  After any sequence of commands, undo and redo the scene and the   *)
(* graph store agree: node items and nodes of the store correspond one to  *)
(* one by ID, edge items and edges of the store correspond one to one by   *)
(* source, target and key, and the scene holds no item of a node or edge   *)
(* that the store does not have.                                           *)
(***************************************************************************)
C34_SceneMatchesStore == SceneMatchesStore(scene)

\* what does hold: every node and every edge of the graph store has an item
\* in the scene
C34_EveryNodeHasAnItem ==
    /\ DOMAIN scene.G.nodes \subseteq {scene.nodes[n].node_id : n \in Range(scene.nscene)}
    /\ DOMAIN scene.G.edges \subseteq {EdgeIdentity(scene, e) : e \in Range(scene.escene)}

\* nodes and edges were deleted and brought back by undo and redo
C34_Reached ==
    /\ last.op = "redo" /\ last.did /\ ~last.raised
    /\ \E i \in 1..Len(cm.history) : cm.history[i].kind = "DeleteNode"
    /\ SceneMatchesStore(scene)

(***************************************************************************)
(* The cached and the uncached ID generator side by side: add_node,        *)
(* add_link between nodes of the store, remove_node_with_links,            *)
(* remove_edge, clear, and requests for node and link IDs, every issued ID *)
(* being added to the store before the next request.  pend is the ID that  *)
(* was issued last, node or link, until it is added.                       *)
(***************************************************************************)
CacheNodeIds == {PyStr(<<"n", "1">>), PyStr(<<"n", "3">>)}

CacheLinkIds == {PyStr(<<"e", "2">>), PyInt(3)}

\* IDs issued by the generator start with n (node) or e (link)
PendingNode == pend # NoId /\ pend[1] = "n"

PendingLink == pend # NoId /\ pend[1] = "e"

\* add_link between two nodes of the store
CacheAddLink(link_id) ==
    /\ CacheNodeIds \subseteq cs.nodes
    /\ CsAddLink(link_id, PyStr(<<"n", "1">>), PyStr(<<"n", "3">>))

CacheNext ==
    \/ \E n \in CacheNodeIds :
           /\ CsAddNode(n)
           /\ pend' = (IF n = PyStr(pend) THEN NoId ELSE pend)
           /\ UNCHANGED edVars
    \/ PendingNode /\ CsAddNode(PyStr(pend)) /\ pend' = NoId /\ UNCHANGED edVars
    \/ \E k \in CacheLinkIds :
           /\ CacheAddLink(k)
           /\ pend' = (IF k = PyStr(pend) THEN NoId ELSE pend)
           /\ UNCHANGED edVars
    \/ PendingLink /\ CacheAddLink(PyStr(pend)) /\ pend' = NoId /\ UNCHANGED edVars
    \/ \E n \in cs.nodes : CsRemoveNodeWithLinks(n) /\ UNCHANGED <<pend, edVars>>
    \/ \E e \in cs.edges : CsRemoveEdge(e[1], e[2], e[3]) /\ UNCHANGED <<pend, edVars>>
    \/ CsClear /\ UNCHANGED <<pend, edVars>>
    \/ pend = NoId /\ CsGetNextNodeId /\ pend' = ret'.id /\ UNCHANGED edVars
    \/ pend = NoId /\ CsGetNextLinkId /\ pend' = ret'.id /\ UNCHANGED edVars

SpecCache == IdInit /\ [][CacheNext]_vars

(***************************************************************************)
(* C35.  With every issued ID added before the next request, the generator *)
(* with the cache enabled returns at every request the ID that a generator *)
(* with the cache disabled returns on the same store, for node IDs and for *)
(* link IDs, whatever add_node, add_link, remove_node_with_links,          *)
(* remove_edge and clear calls came before.                                *)
(***************************************************************************)
C35_CacheAgreesWithScan ==
    /\ ret.op = "node" => ret.id = get_next_node_id(IDGeneratorInit(FALSE), cs).id
    /\ ret.op = "link" => ret.id = get_next_link_id(IDGeneratorInit(FALSE), cs).id

\* the cached generator has issued n2 for a store that holds n1 and links,
\* after a higher ID had been issued
C35_Witness ==
    /\ ret.op = "node"
    /\ ret.id = <<"n", "2">>
    /\ gen.enable_cache
    /\ cs.nodes = {PyStr(<<"n", "1">>)}
    /\ gen.link_counter > 2

(***************************************************************************)
(* Edges and nodes created and deleted through commands, undo and redo, in *)
(* an editor that has loaded TwoNodeModel.                                 *)
(***************************************************************************)
OffsetsNext ==
    \/ \E src, dst \in DOMAIN scene.nodes : create_edge(src, dst) /\ UNCHANGED idVars
    \/ \E edge \in DOMAIN scene.edges : delete_edge_item(edge) /\ UNCHANGED idVars
    \/ \E node \in DOMAIN scene.nodes : delete_node_item(node) /\ UNCHANGED idVars
    \/ call_undo /\ UNCHANGED idVars
    \/ call_redo /\ UNCHANGED idVars

SpecOffsets == ReflowInit /\ [][OffsetsNext]_vars

\* the edges of the graph store between u and v, in either direction
StoredBetween(G, u, v) ==
    {e \in DOMAIN G.edges : <<e[1], e[2]>> \in {<<u, v>>, <<v, u>>}}

\* the offsets of the items of the scene that show the stored edges between
\* u and v are up to date: 0 for a single edge, and for N > 1 edges the N
\* distinct values (i - (N - 1) / 2) * 50
OffsetsUpToDate(S, u, v) ==
    LET stored == StoredBetween(S.G, u, v)
        N == Cardinality(stored)
        items == {e \in Range(S.escene) : EdgeIdentity(S, e) \in stored}
        offsets == {S.edges[e].curve_offset : e \in items}
    IN N >= 1 =>
         /\ \A k \in stored : \E e \in items : EdgeIdentity(S, e) = k
         /\ offsets = {(2 * i - (N - 1)) * 25 : i \in 0..(N - 1)}
         /\ \A e, f \in items :
                S.edges[e].curve_offset = S.edges[f].curve_offset
                    => EdgeIdentity(S, e) = EdgeIdentity(S, f)

\* a command, an undo() or a redo() has just completed
Completed == last.op \in {"execute", "undo", "redo"} /\ last.did /\ ~last.raised

(***************************************************************************)
(* C36.  After every completed command, undo or redo the curve offsets are *)
(* up to date for every pair of nodes: the edge of a pair that the graph   *)
(* store connects by exactly one edge is at offset 0, and the N > 1 edges  *)
(* of a pair have the N pairwise distinct offsets that reflow gives N      *)
(* edges.                                                                  *)
(***************************************************************************)
C36_OffsetsUpToDate ==
    Completed => \A u, v \in DOMAIN scene.G.nodes :
                     u # v => OffsetsUpToDate(scene, u, v)

\* what does hold: the offsets are up to date while the scene and the graph
\* store agree
C36_WhenSceneMatchesStore ==
    (Completed /\ SceneMatchesStore(scene))
        => \A u, v \in DOMAIN scene.G.nodes :
               u # v => OffsetsUpToDate(scene, u, v)

\* three edges between the nodes 0 and 1 after an undo, with up-to-date offsets
C36_Reached ==
    /\ last.op = "undo" /\ last.did /\ ~last.raised
    /\ Cardinality(StoredBetween(scene.G, 0, 1)) = 3
    /\ OffsetsUpToDate(scene, 0, 1)

(***************************************************************************)
(* EdgeItem.update_path.  Coordinates are exact fractions: a point is      *)
(* [x, y, d] for (x / d, y / d) with d > 0.  The positions used here lie   *)
(* at whole distances from each other, so math.hypot is a whole number.    *)
(***************************************************************************)

\* math.hypot(x, y) for a vector of whole length
hypot(x, y) == CHOOSE d \in 0..(Abs(x) + Abs(y)) : d * d = x * x + y * y

\* two fractions name the same point
SamePoint(p, q) == p.x * q.d = q.x * p.d /\ p.y * q.d = q.y * p.d

\* update_path with the normal taken from the edge's own direction src->dst
update_path_PerEdge(S, e) ==
    LET item == S.edges[e]
        p1 == S.nodes[item.src].pos
        p2 == S.nodes[item.dst].pos
        vx == p2[1] - p1[1]
        vy == p2[2] - p1[2]
        length == hypot(vx, vy)
        d == IF length = 0 THEN 1 ELSE length
        ux == IF length = 0 THEN 0 ELSE vx
        uy == IF length = 0 THEN 0 ELSE vy
        node_size == S.ndata[S.nodes[item.src].data].size.n
        start == <<p1[1] * d + ux * node_size, p1[2] * d + uy * node_size>>
        end == <<p2[1] * d - ux * node_size, p2[2] * d - uy * node_size>>
        nx_ == 0 - uy
        ny_ == ux
    IN [curved |-> Abs(item.curve_offset) * 10 >= 1,
        start |-> [x |-> start[1], y |-> start[2], d |-> d],
        end |-> [x |-> end[1], y |-> end[2], d |-> d],
        ctrl |-> [x |-> start[1] + end[1] + 2 * nx_ * item.curve_offset,
                  y |-> start[2] + end[2] + 2 * ny_ * item.curve_offset,
                  d |-> 2 * d]]

\* EdgeItem.update_path: the path of edge item e of scene S.  dist is
\* hypot(v) or 1e-9, so a vector v = 0 gives the unit vector (0, 0); start
\* and end lie node_size (the size of src) inside the chord; for
\* abs(curve_offset) < 0.1 the path is the line start-end, else a quadratic
\* curve through ctrl = mid + normal * curve_offset, the normal being that
\* of the direction from the lower to the higher node id
update_path(S, e) ==
    LET item == S.edges[e]
        p1 == S.nodes[item.src].pos
        p2 == S.nodes[item.dst].pos
        vx == p2[1] - p1[1]
        vy == p2[2] - p1[2]
        length == hypot(vx, vy)
        d == IF length = 0 THEN 1 ELSE length
        ux == IF length = 0 THEN 0 ELSE vx
        uy == IF length = 0 THEN 0 ELSE vy
        node_size == S.ndata[S.nodes[item.src].data].size.n
        start == <<p1[1] * d + ux * node_size, p1[2] * d + uy * node_size>>
        end == <<p2[1] * d - ux * node_size, p2[2] * d - uy * node_size>>
        node1_id == S.nodes[item.src].node_id
        node2_id == S.nodes[item.dst].node_id
        lower == IF node1_id <= node2_id THEN node1_id ELSE node2_id
        higher == IF node1_id >= node2_id THEN node1_id ELSE node2_id
        forward == node1_id = lower /\ node2_id = higher
        canonical_ux == IF forward THEN ux ELSE 0 - ux
        canonical_uy == IF forward THEN uy ELSE 0 - uy
        nx_ == 0 - canonical_uy
        ny_ == canonical_ux
    IN [curved |-> Abs(item.curve_offset) * 10 >= 1,
        start |-> [x |-> start[1], y |-> start[2], d |-> d],
        end |-> [x |-> end[1], y |-> end[2], d |-> d],
        ctrl |-> [x |-> start[1] + end[1] + 2 * nx_ * item.curve_offset,
                  y |-> start[2] + end[2] + 2 * ny_ * item.curve_offset,
                  d |-> 2 * d]]

\* positions a node is dragged to: the two of TwoNodeModel and a third, all
\* at whole distances from each other (100, 75, 125)
CurvePool == {<<100, 0>>, <<200, 0>>, <<100, 75>>}

CurvesNext ==
    \/ \E src, dst \in DOMAIN scene.nodes : create_edge(src, dst) /\ UNCHANGED idVars
    \/ \E node \in DOMAIN scene.nodes, new_pos \in CurvePool :
           node_mouse_release(node, new_pos) /\ UNCHANGED idVars
    \/ call_undo /\ UNCHANGED idVars
    \/ call_redo /\ UNCHANGED idVars

SpecCurves == ReflowInit /\ [][CurvesNext]_vars

\* the pairs of edge items of the scene that join the same two node items in
\* opposite directions
OppositePairs(S) ==
    {p \in Range(S.escene) \X Range(S.escene) :
        /\ S.edges[p[1]].src = S.edges[p[2]].dst
        /\ S.edges[p[1]].dst = S.edges[p[2]].src
        /\ S.edges[p[1]].src # S.edges[p[1]].dst}

\* the node item of edge item e with the lower (which = 1) or the higher
\* (which = 2) node id
EndById(S, e, which) ==
    LET item == S.edges[e]
        src_low == S.nodes[item.src].node_id <= S.nodes[item.dst].node_id
    IN IF (which = 1) = src_low THEN item.src ELSE item.dst

\* the two node items of edge item e are at different positions
Apart(S, e) == S.nodes[S.edges[e].src].pos # S.nodes[S.edges[e].dst].pos

\* the control point of edge item e is the midpoint of the chord displaced
\* by curve_offset along the unit normal (-wy, wx) / |w| of the vector w
\* from the lower-id node to the higher-id node
DisplacedAlongCanonical(S, e) ==
    LET a == S.nodes[EndById(S, e, 1)].pos
        b == S.nodes[EndById(S, e, 2)].pos
        wx == b[1] - a[1]
        wy == b[2] - a[2]
        w == hypot(wx, wy)
        offset == S.edges[e].curve_offset
    IN /\ w > 0
       /\ SamePoint(update_path(S, e).ctrl,
                    [x |-> (a[1] + b[1]) * w - 2 * wy * offset,
                     y |-> (a[2] + b[2]) * w + 2 * wx * offset,
                     d |-> 2 * w])

\* twice the signed distance of the control point of e from the chord, in
\* units of 1 / update_path(S, e).ctrl.d, measured along (-wy, wx)
Side(S, e) ==
    LET a == S.nodes[EndById(S, e, 1)].pos
        b == S.nodes[EndById(S, e, 2)].pos
        c == update_path(S, e).ctrl
    IN (c.x - a[1] * c.d) * (0 - (b[2] - a[2])) + (c.y - a[2] * c.d) * (b[1] - a[1])

Sign(x) == IF x > 0 THEN 1 ELSE IF x < 0 THEN 0 - 1 ELSE 0

\* what the claim says of the opposite edge items e and f of scene S
CurvesApart(S, e, f) ==
    LET o1 == S.edges[e].curve_offset
        o2 == S.edges[f].curve_offset
    IN /\ update_path(S, e).curved => DisplacedAlongCanonical(S, e)
       /\ update_path(S, f).curved => DisplacedAlongCanonical(S, f)
       /\ (update_path(S, e).curved /\ update_path(S, f).curved)
          => /\ Sign(o1) # Sign(o2) => Sign(Side(S, e)) # Sign(Side(S, f))
             /\ o1 # o2 => ~SamePoint(update_path(S, e).ctrl, update_path(S, f).ctrl)

(* C37: for two edges between the same node pair drawn in opposite
   directions, the control point of each is the chord midpoint displaced
   along the unit normal of the lower-id to higher-id direction by the
   edge's curve offset, so opposite-sign offsets curve to opposite sides and
   distinct offsets never share a control point. *)
C37_CanonicalNormal ==
    \A p \in OppositePairs(scene) : CurvesApart(scene, p[1], p[2])

(* C37, for nodes at different positions: the same, where the two nodes of
   the pair are not at the same position. *)
C37_CanonicalNormalApart ==
    \A p \in OppositePairs(scene) :
        Apart(scene, p[1]) => CurvesApart(scene, p[1], p[2])

\* A->B and B->A with offsets -25 and 25 after node 0 has been dragged
\* to (100, 75): the chord is neither horizontal nor vertical
C37_Witness ==
    /\ last.op = "execute" /\ ~last.raised
    /\ scene.nodes[scene.nscene[1]].pos = <<100, 75>>
    /\ \E p \in OppositePairs(scene) :
           /\ scene.edges[p[1]].curve_offset = 0 - 25
           /\ scene.edges[p[2]].curve_offset = 25
           /\ update_path(scene, p[1]).curved /\ update_path(scene, p[2]).curved

\* the two nodes at the same position with curved opposite edges
C37_Coincident ==
    \E p \in OppositePairs(scene) :
        /\ ~Apart(scene, p[1])
        /\ update_path(scene, p[1]).curved /\ update_path(scene, p[2]).curved

(***************************************************************************)
(* Draggability of the node items under the mode toolbar, the mouse, undo  *)
(* and redo, in the editor of a new tab (empty graph, AddNode mode).       *)
(***************************************************************************)
MovableInit == IdStart /\ EdStart(EmptyModel, MAX_UNDO_HISTORY)

MovableNext ==
    \/ \E mode \in InteractionModes : select_mode(mode) /\ UNCHANGED idVars
    \/ \E pos \in ClickPool : mouse_press_empty(pos) /\ UNCHANGED idVars
    \/ \E node \in UnderMouse(scene) \ {None} : mouse_press_node(node) /\ UNCHANGED idVars
    \/ call_undo /\ UNCHANGED idVars
    \/ call_redo /\ UNCHANGED idVars

SpecMovable == MovableInit /\ [][MovableNext]_vars

\* no node item of the scene has the flag ItemIsMovable
NonDraggable(S) == \A n \in Range(S.nscene) : ~S.nodes[n].movable

(* C38: in every reachable state whose mode is AddNode, Connect or Delete,
   every node in the scene is non-draggable, including nodes created by a
   command or restored by undo/redo after the mode was entered. *)
C38_NonDraggableInModes == ActiveModes(scene) # {} => NonDraggable(scene)

(* C38, at the moment a mode is entered: the step that selects AddNode,
   Connect or Delete leaves every node of the scene non-draggable, and the
   step that selects Move leaves every node draggable. *)
C38_EnteringSetsDraggability ==
    [][/\ \A mode \in InteractionModes \ {"move"} :
              select_mode(mode) => NonDraggable(scene')
       /\ select_mode("move")
              => \A n \in Range(scene'.nscene) : scene'.nodes[n].movable]_vars

\* Delete mode with a node that undo has put back
C38_Reached ==
    /\ scene.deleting
    /\ last.op = "undo" /\ last.did /\ ~last.raised
    /\ Len(scene.nscene) = 1

\* a node created by a click in AddNode mode
C38_ReachedCreated ==
    /\ scene.adding_node
    /\ last.op = "execute" /\ ~last.raised
    /\ Len(scene.nscene) = 1

(***************************************************************************)
(* The properties pane showing a selected edge item.                       *)
(***************************************************************************)

\* _show_properties_for_item for an EdgeItem: the item id the pane is given
\* and sends back with every change, f"{src.node_id}->{dst.node_id}"
show_properties_for_item(S, item) ==
    Digits(S.nodes[S.edges[item].src].node_id) \o <<"-", ">">>
        \o Digits(S.nodes[S.edges[item].dst].node_id)

\* the edge item is selected, the pane shows it, and the user edits the
\* field property_name: PropertiesPanel._property_changed emits the item id
\* of the pane to _on_property_changed
pane_edge_change(item, property_name, value) ==
    /\ item \in Range(scene.escene)
    /\ on_property_changed(show_properties_for_item(scene, item), property_name, value)

\* the fields of the pane for an edge that are modelled, with a new value
PaneEdgePool == {<<"description", PyStr(<<"d">>)>>, <<"label", PyStr(<<"x">>)>>}

PaneNext ==
    \/ \E src, dst \in DOMAIN scene.nodes : create_edge(src, dst) /\ UNCHANGED idVars
    \/ \E item \in DOMAIN scene.edges, p \in PaneEdgePool :
           pane_edge_change(item, p[1], p[2]) /\ UNCHANGED idVars
    \/ call_undo /\ UNCHANGED idVars
    \/ call_redo /\ UNCHANGED idVars

SpecPane == ReflowInit /\ [][PaneNext]_vars

\* the step leaves every edge but that of the edge item `item` as it was:
\* the attributes in the graph store and the data of the items
OnlyEdgeChanged(item) ==
    /\ DOMAIN scene'.G.edges = DOMAIN scene.G.edges
    /\ \A e \in DOMAIN scene.G.edges :
           e # EdgeIdentity(scene, item) => scene'.G.edges[e] = scene.G.edges[e]
    /\ \A other \in Range(scene.escene) :
           EdgeIdentity(scene, other) # EdgeIdentity(scene, item)
               => /\ other \in Range(scene'.escene)
                  /\ scene'.edges[other] = scene.edges[other]
                  /\ scene'.edata[scene.edges[other].data] = scene.edata[scene.edges[other].data]

\* the other edge items of the scene between the same ordered pair of nodes
Parallel(S, item) ==
    {other \in Range(S.escene) :
        /\ other # item
        /\ EdgeIdentity(S, other)[1] = EdgeIdentity(S, item)[1]
        /\ EdgeIdentity(S, other)[2] = EdgeIdentity(S, item)[2]}

(* C39: a property change issued from the properties pane for a selected
   edge modifies only that edge, identified by (source, target, key); every
   other edge, the parallel edges between the same ordered pair included,
   keeps all its attributes. *)
C39_OnlySelectedEdge ==
    [][\A item \in Range(scene.escene), p \in PaneEdgePool :
           pane_edge_change(item, p[1], p[2]) => OnlyEdgeChanged(item)]_vars

(* C39, without parallel edges: a property change from the pane for a
   selected edge that is the only one from its source to its target changes
   that edge and no other. *)
C39_OnlyEdgeOfItsPair ==
    [][\A item \in Range(scene.escene), p \in PaneEdgePool :
           (Parallel(scene, item) = {} /\ pane_edge_change(item, p[1], p[2]))
               => /\ OnlyEdgeChanged(item)
                  /\ issued' = issued + 1
                         => p[2] \in {DictGet(scene'.G.edges[EdgeIdentity(scene, item)],
                                              "description", PyNone),
                                      scene'.G.edges[EdgeIdentity(scene, item)].name}]_vars

\* a change from the pane has been executed while the selected edge had a
\* parallel edge and an edge in the opposite direction
C39_Reached ==
    /\ last.op = "execute" /\ ~last.raised
    /\ cm.history[Len(cm.history)].kind = "ChangeEdgeProperty"
    /\ Cardinality(DOMAIN scene.G.edges) = 3
    /\ Parallel(scene, cm.history[Len(cm.history)].edge_item) # {}

(***************************************************************************)
(* ControlStructureTab.set_model: a newly loaded model replaces the graph  *)
(* that is being edited.                                                   *)
(***************************************************************************)

\* _clear_scene_safely: every item leaves the scene; the objects stay with
\* whoever refers to them
clear_scene_safely(S) == [S EXCEPT !.nscene = <<>>, !.escene = <<>>]

\* set_model / _load_from_model: the scene and G are cleared and filled from
\* the model; the mode flags and the command manager are not touched
set_model(S, model) ==
    LET cleared == [clear_scene_safely(S) EXCEPT !.G = EmptyGraph]
    IN ReflowLoaded(LoadEdges(LoadNodes(cleared, model.nodes), model.edges), model.edges)

call_set_model(model) ==
    /\ Becomes(Collect(set_model(scene, model), cm))
    /\ last' = [op |-> "set_model", did |-> TRUE, raised |-> FALSE]
    /\ snap' = NoSnap
    /\ run' = NoRun
    /\ trail' = NoTrail
    /\ UNCHANGED <<applied, issued, made>>

\* the documents that File > Open and File > New hand to set_model
ModelPool == {EmptyModel, TwoNodeModel}

SetModelNext ==
    \/ \E pos \in ClickPool : create_node(pos) /\ UNCHANGED idVars
    \/ \E model \in ModelPool : call_set_model(model) /\ UNCHANGED idVars
    \/ call_undo /\ UNCHANGED idVars
    \/ call_redo /\ UNCHANGED idVars

SpecSetModel == MovableInit /\ [][SetModelNext]_vars

(* C40: after ControlStructureTab.set_model has replaced the edited graph
   with a newly loaded model, the command history is empty (can_undo() and
   can_redo() are both false), so no command recorded against the previous
   graph can be undone or redone against the new one. *)
C40_SetModelEmptiesHistory ==
    [][\A model \in ModelPool :
           call_set_model(model)
               => /\ cm'.history = <<>>
                  /\ ~can_undo(cm') /\ ~can_redo(cm')]_vars

(* C40, what set_model does to the history: it leaves the commands and the
   cursor as they were. *)
C40_SetModelKeepsHistory ==
    [][\A model \in ModelPool :
           call_set_model(model)
               => /\ HistoryCids(cm') = HistoryCids(cm)
                  /\ cm'.current_index = cm.current_index
                  /\ can_undo(cm') = can_undo(cm)
                  /\ can_redo(cm') = can_redo(cm)]_vars

\* TwoNodeModel has just been loaded over a graph with commands behind and
\* ahead of the cursor
C40_Reached ==
    /\ last.op = "set_model"
    /\ Len(scene.nscene) = 2
    /\ can_undo(cm) /\ can_redo(cm)

\* a command recorded against the previous graph has been undone against
\* the newly loaded one: the undo of the AddNode of node 0 has taken node 0
\* of TwoNodeModel out of the graph store and left its item in the scene
C40_UndoneAgainstNew ==
    /\ last.op = "undo" /\ last.did
    /\ Len(scene.nscene) = 2
    /\ DOMAIN scene.G.nodes = {1}
====
